---- MODULE Spec2Model ----
(***************************************************************************)
(* Model of the lopper system-device-tree engine (src/lopper.py):          *)
(* LopperSDT.perform_lops and LopperSDT.exec_lop acting on a LopperTree.   *)
(*                                                                         *)
(* Strings are sequences of one-character strings, so that split(),        *)
(* replace(), pathlib.Path and regular expressions are computed the way    *)
(* the code computes them.  "/a/b" is <<"/","a","/","b">>.                 *)
(***************************************************************************)
EXTENDS Integers, Sequences, FiniteSets, TLC

VARIABLES
    sdt,        \* the engine: main tree, selection set, executed lops
    lops,       \* self.lops: the loaded lop files, in load order
    runqueue,   \* lops_runqueue: priority -> indices into lops
    pc,         \* where the run is: "start","run","done","exited","crashed","ops"
    pri,        \* perform_lops: the priority being swept
    fidx,       \* perform_lops: position in lops_runqueue[pri]
    nidx,       \* perform_lops: position of the walk in the lop tree
    skip_list,  \* perform_lops: ids of the nodes below the last conditional
    pre,        \* the engine as it was before the last lop
    op,         \* the last lop handed to exec_lop
    steps       \* number of lops applied directly (exec_lop harness)

vars == <<sdt, lops, runqueue, pc, pri, fidx, nidx, skip_list, pre, op, steps>>

(***************************************************************************)
(* Strings                                                                 *)
(***************************************************************************)
Last(s) == s[Len(s)]

Front(s) == SubSeq(s, 1, Len(s) - 1)

HasChar(s, c) == \E i \in 1..Len(s) : s[i] = c

\* str.split(c)
RECURSIVE Split(_, _)
Split(s, c) ==
    IF ~HasChar(s, c) THEN <<s>>
    ELSE LET k == CHOOSE i \in 1..Len(s) : s[i] = c /\ \A j \in 1..(i - 1) : s[j] # c
         IN  <<SubSeq(s, 1, k - 1)>> \o Split(SubSeq(s, k + 1, Len(s)), c)

\* str.replace(c, '') and re.sub(c, '', s) for a one-character pattern c
StripChar(s, c) == SelectSeq(s, LAMBDA x : x # c)

StartsWith(s, p) == Len(p) <= Len(s) /\ SubSeq(s, 1, Len(p)) = p

\* re.sub(pat, "", s) for a literal pattern: every non-overlapping
\* occurrence of pat, scanning left to right, is dropped
RECURSIVE ReSubLiteral(_, _)
ReSubLiteral(pat, s) ==
    IF s = <<>> \/ pat = <<>> THEN s
    ELSE IF StartsWith(s, pat) THEN ReSubLiteral(pat, SubSeq(s, Len(pat) + 1, Len(s)))
    ELSE <<Head(s)>> \o ReSubLiteral(pat, Tail(s))

\* the regular expressions of the re module that the lops use: literal
\* characters, ".", "x*", a leading "^" and a trailing "$"
RECURSIVE MatchHere(_, _)
MatchHere(re, s) ==
    IF re = <<>> THEN TRUE
    ELSE IF Len(re) >= 2 /\ re[2] = "*"
    THEN \E k \in 0..Len(s) :
            /\ \A i \in 1..k : (re[1] = "." \/ re[1] = s[i])
            /\ MatchHere(SubSeq(re, 3, Len(re)), SubSeq(s, k + 1, Len(s)))
    ELSE IF re = <<"$">> THEN s = <<>>
    ELSE /\ s # <<>>
         /\ (re[1] = "." \/ re[1] = s[1])
         /\ MatchHere(Tail(re), Tail(s))

\* re.search(re, s)
ReSearch(re, s) ==
    IF re # <<>> /\ re[1] = "^" THEN MatchHere(Tail(re), s)
    ELSE \E i \in 1..(Len(s) + 1) : MatchHere(re, SubSeq(s, i, Len(s)))

(***************************************************************************)
(* pathlib.Path of an absolute path: .parent and .name                     *)
(***************************************************************************)
PathSegs(p) == SelectSeq(Split(p, "/"), LAMBDA x : x # <<>>)

RECURSIVE JoinPath(_)
JoinPath(segs) ==
    IF segs = <<>> THEN <<>>
    ELSE <<"/">> \o Head(segs) \o JoinPath(Tail(segs))

\* str(Path(p)): "/" for the root, no doubled or trailing slash otherwise
PathStr(p) == IF PathSegs(p) = <<>> THEN <<"/">> ELSE JoinPath(PathSegs(p))

PathName(p) == IF PathSegs(p) = <<>> THEN <<>> ELSE Last(PathSegs(p))

PathParent(p) ==
    IF Len(PathSegs(p)) <= 1 THEN <<"/">> ELSE JoinPath(Front(PathSegs(p)))

(***************************************************************************)
(* Property values: a value is a list of cells; a cell is an unsigned      *)
(* number or a string.  Both kinds are records of one shape.               *)
(***************************************************************************)
IntV(n) == [s |-> <<>>, n |-> n, t |-> "int"]

StrV(s) == [s |-> s, n |-> 0, t |-> "str"]

DigitVal(c) ==
    CASE c = "0" -> 0 [] c = "1" -> 1 [] c = "2" -> 2 [] c = "3" -> 3
      [] c = "4" -> 4 [] c = "5" -> 5 [] c = "6" -> 6 [] c = "7" -> 7
      [] c = "8" -> 8 [] c = "9" -> 9 [] OTHER -> -1

IsNumber(s) == s # <<>> /\ \A i \in 1..Len(s) : DigitVal(s[i]) >= 0

RECURSIVE ParseInt(_)
ParseInt(s) == IF s = <<>> THEN 0 ELSE 10 * ParseInt(Front(s)) + DigitVal(Last(s))

\* Lopper.property_convert: a decimal number becomes an integer cell,
\* anything else stays a string
PropertyConvert(s) == IF IsNumber(s) THEN <<IntV(ParseInt(s))>> ELSE <<StrV(s)>>

(***************************************************************************)
(* Nodes and trees.  A tree is the sequence of its nodes in document       *)
(* (pre-) order.  A node keeps its identity (id) across renames.           *)
(* Every record is written with its fields in one fixed order.             *)
(***************************************************************************)
NoNode == [id |-> 0, label |-> <<>>, name |-> <<>>, path |-> <<>>,
           phandle |-> 0, props |-> <<>>]

Node(i, p, pr, l, ph) ==
    [id |-> i, label |-> l, name |-> PathName(p), path |-> p,
     phandle |-> ph, props |-> pr]

\* the node part of a record of a lop tree (a lop node carries the decoded
\* lop attributes next to it)
ToNode(m) ==
    [id |-> m.id, label |-> m.label, name |-> m.name, path |-> m.path,
     phandle |-> m.phandle, props |-> m.props]

Prop(n, v) == [name |-> n, value |-> v]

\* node[name] succeeded
HasProp(n, name) == \E i \in 1..Len(n.props) : n.props[i].name = name

\* node[name].value
PropVal(n, name) ==
    LET i == CHOOSE j \in 1..Len(n.props) : n.props[j].name = name
    IN  n.props[i].value

\* node[name] = value: replaces in place, or appends a new property
SetProp(n, name, v) ==
    IF HasProp(n, name)
    THEN [n EXCEPT !.props = [i \in 1..Len(n.props) |->
                IF n.props[i].name = name THEN Prop(name, v) ELSE n.props[i]]]
    ELSE [n EXCEPT !.props = Append(n.props, Prop(name, v))]

\* node.delete(name) where the property is present
DelProp(n, name) == [n EXCEPT !.props = SelectSeq(n.props, LAMBDA p : p.name # name)]

Ids(t) == {t[i].id : i \in 1..Len(t)}

MaxId(t) == IF t = <<>> THEN 0 ELSE CHOOSE m \in Ids(t) : \A k \in Ids(t) : k <= m

Paths(t) == {t[i].path : i \in 1..Len(t)}

\* path q is p or lies below p
Below(p, q) ==
    \/ q = p
    \/ IF p = <<"/">> THEN StartsWith(q, p) ELSE StartsWith(q, p \o <<"/">>)

\* tree[path]: the node at exactly that path; NoNode when the lookup raises
Lookup(t, p) ==
    IF p \in Paths(t) THEN ToNode(t[CHOOSE i \in 1..Len(t) : t[i].path = p]) ELSE NoNode

\* the node with a given identity
ById(t, i) == IF i \in Ids(t) THEN t[CHOOSE k \in 1..Len(t) : t[k].id = i] ELSE NoNode

\* tree.subnodes(n): n followed by its descendants in document order
SubNodes(t, n) == SelectSeq(t, LAMBDA m : Below(n.path, m.path))

\* tree.nodes(regex): the nodes whose absolute path the regex is found in
TreeNodes(t, re) == SelectSeq(t, LAMBDA m : ReSearch(re, m.path))

\* tree.lnodes(regex): the nodes whose label the regex is found in
LNodes(t, re) == SelectSeq(t, LAMBDA m : m.label # <<>> /\ ReSearch(re, m.label))

\* tree.pnode(phandle)
PNode(t, ph) ==
    IF ph # 0 /\ \E i \in 1..Len(t) : t[i].phandle = ph
    THEN t[CHOOSE i \in 1..Len(t) : t[i].phandle = ph /\ \A j \in 1..(i - 1) : t[j].phandle # ph]
    ELSE NoNode

SeqIds(s) == [i \in 1..Len(s) |-> s[i].id]

\* node(): a detached deep copy of n and its subtree; the copies are new
\* nodes (new identities) already placed at path dest
DeepCopy(t, n, dest, base) ==
    LET sub == SubNodes(t, n)
    IN  [i \in 1..Len(sub) |->
            LET np == dest \o SubSeq(sub[i].path, Len(n.path) + 1, Len(sub[i].path))
            IN  [ToNode(sub[i]) EXCEPT !.id = base + i, !.path = np, !.name = PathName(np)]]

\* tree + node: inserts the copied subtree as the last child of the parent
\* its path implies; fails (tree unchanged) when the path is occupied or
\* the parent does not exist
CanAdd(t, cp) ==
    /\ cp # <<>>
    /\ cp[1].path \notin Paths(t)
    /\ PathParent(cp[1].path) \in Paths(t)
    /\ PathStr(cp[1].path) = cp[1].path

TreeAdd(t, cp) ==
    IF ~CanAdd(t, cp) THEN t
    ELSE LET par == PathParent(cp[1].path)
             k   == CHOOSE i \in 1..Len(t) :
                        /\ Below(par, t[i].path)
                        /\ \A j \in (i + 1)..Len(t) : ~Below(par, t[j].path)
         IN  SubSeq(t, 1, k) \o cp \o SubSeq(t, k + 1, Len(t))

\* the ids of n and its descendants that are in the tree
Doomed(t, n) == {m.id : m \in {t[i] : i \in {j \in 1..Len(t) : n.id \in Ids(t) /\ Below(ById(t, n.id).path, t[j].path)}}}

\* tree.delete(n): removes n and its descendants from the tree and from
\* the selection set; nothing happens when n is not in the tree
TreeDelete(e, n) ==
    LET gone == Doomed(e.tree, n)
    IN  [e EXCEPT !.tree = SelectSeq(e.tree, LAMBDA m : m.id \notin gone),
                  !.selected = SelectSeq(e.selected, LAMBDA i : i \notin gone)]

\* node.name = value: only the node's own name changes; the paths are
\* brought up to date by the next sync
SetName(t, id, nm) ==
    [i \in 1..Len(t) |-> IF t[i].id = id THEN [t[i] EXCEPT !.name = nm] ELSE t[i]]

\* tree.sync(): re-establishes the path index: a node whose name was
\* changed gets its path from its parent's path and its name, and the
\* paths of its descendants follow
Stale(t) == {i \in 1..Len(t) : t[i].name # PathName(t[i].path)}

TreeSync(t) ==
    IF Stale(t) = {} THEN t
    ELSE LET r    == t[CHOOSE i \in Stale(t) : \A j \in Stale(t) : i <= j]
             pp   == PathParent(r.path)
             newp == (IF pp = <<"/">> THEN <<>> ELSE pp) \o <<"/">> \o r.name
         IN  [i \in 1..Len(t) |->
                IF Below(r.path, t[i].path)
                THEN [t[i] EXCEPT !.path = newp \o SubSeq(t[i].path, Len(r.path) + 1, Len(t[i].path))]
                ELSE t[i]]

(***************************************************************************)
(* The engine.  A record e holds what exec_lop reads and writes:           *)
(*   tree, selected  the main tree and its selection set (node ids)        *)
(*   trace           the lops executed so far, in order                    *)
(*   ret             the value the last exec_lop returned                  *)
(*   status          "ok", "exit" after sys.exit(), "exc" while an         *)
(*                   exception is propagating                              *)
(***************************************************************************)
MaxDepth == 3

Returned(e, r) == [e EXCEPT !.ret = r]

Exited(e) == [e EXCEPT !.status = "exit", !.ret = "None"]

Raised(e) == [e EXCEPT !.status = "exc", !.ret = "None"]

MapTree(t, F(_)) == [i \in 1..Len(t) |-> F(t[i])]

SelectedNodes(e) == [i \in 1..Len(e.selected) |-> ById(e.tree, e.selected[i])]

\* modify, property delete (lines 1712-1732): the property is dropped from
\* every target that has it
ModifyPropDelete(e, nodes, mprop) ==
    LET ids == {nodes[i].id : i \in 1..Len(nodes)}
        t1  == TreeSync(e.tree)
        t2  == MapTree(t1, LAMBDA m :
                   IF m.id \in ids /\ HasProp(m, mprop) THEN DelProp(m, mprop) ELSE m)
    IN  [e EXCEPT !.tree = TreeSync(t2)]

\* modify, phandle lookup (lines 1755-1789): the value that replaces
\* "&NAME" or "&NAME#FIELD"
PhandleNodesLabelFirst(t, lt, name) ==
    IF LNodes(t, name) # <<>> THEN LNodes(t, name)
    ELSE IF LNodes(lt, name) # <<>> THEN LNodes(lt, name)
    ELSE IF TreeNodes(t, name) # <<>> THEN TreeNodes(t, name)
    ELSE TreeNodes(lt, name)

PhandleNodes(t, lt, name) ==
    IF TreeNodes(t, name) # <<>> THEN TreeNodes(t, name)
    ELSE IF LNodes(t, name) # <<>> THEN LNodes(t, name)
    ELSE IF TreeNodes(lt, name) # <<>> THEN TreeNodes(lt, name)
    ELSE LNodes(lt, name)

PhandleValue(t, lt, val) ==
    LET parts   == Split(val, "#")
        node    == parts[1]
        field   == IF Len(parts) >= 2 THEN parts[2] ELSE <<>>
        name    == StripChar(node, "&")
        pfnodes == PhandleNodes(t, lt, name)
    IN  IF field # <<>>
        THEN IF pfnodes # <<>>
             THEN IF HasProp(pfnodes[1], field) THEN PropVal(pfnodes[1], field)
                  ELSE <<IntV(pfnodes[1].phandle)>>
             ELSE <<IntV(0)>>
        ELSE IF pfnodes # <<>> THEN <<IntV(pfnodes[1].phandle)>> ELSE <<IntV(0)>>

ModifyValue(t, lt, val) ==
    IF HasChar(val, "&") THEN PhandleValue(t, lt, val) ELSE PropertyConvert(val)

\* modify, property assignment (lines 1737-1800): the targets are fetched
\* again, with nodes() when a path was given
ModifyPropAssignSubnodes(e, lt, mpath, mprop, val) ==
    LET t1    == TreeSync(e.tree)
        nodes == IF mpath # <<>>
                 THEN (IF mpath \in Paths(t1) THEN SubNodes(t1, Lookup(t1, mpath)) ELSE <<>>)
                 ELSE SelectedNodes([e EXCEPT !.tree = t1])
        ids   == {nodes[i].id : i \in 1..Len(nodes)}
        v     == ModifyValue(t1, lt, val)
        t2    == MapTree(t1, LAMBDA m : IF m.id \in ids THEN SetProp(m, mprop, v) ELSE m)
    IN  [e EXCEPT !.tree = TreeSync(t2)]

ModifyPropAssign(e, lt, mpath, mprop, val) ==
    LET t1    == TreeSync(e.tree)
        nodes == IF mpath # <<>> THEN TreeNodes(t1, mpath)
                 ELSE SelectedNodes([e EXCEPT !.tree = t1])
        ids   == {nodes[i].id : i \in 1..Len(nodes)}
        v     == ModifyValue(t1, lt, val)
        t2    == MapTree(t1, LAMBDA m : IF m.id \in ids THEN SetProp(m, mprop, v) ELSE m)
    IN  [e EXCEPT !.tree = TreeSync(t2)]

\* modify, node move (lines 1827-1840): deep copy to the new path, delete
\* the original
ModifyMove(e, node, val) ==
    LET cp == DeepCopy(e.tree, node, val, MaxId(e.tree))
        e1 == [e EXCEPT !.tree = TreeAdd(e.tree, cp)]
        e2 == TreeDelete(e1, node)
    IN  [e2 EXCEPT !.tree = TreeSync(e2.tree)]

\* modify, node rename (lines 1842-1873): the slashes are dropped from the
\* value, a node found at the destination path is deleted, the node gets
\* the new name
RenameValue(val) == StripChar(val, "/")

ModifyRename(e, node, val, dest) ==
    LET old == Lookup(e.tree, dest)
        e1  == IF old # NoNode THEN TreeDelete(e, old) ELSE e
    IN  [e1 EXCEPT !.tree = TreeSync(SetName(e1.tree, node.id, RenameValue(val)))]

\* modify, node operation (lines 1805-1887): one target node, the first
RECURSIVE DeleteEach(_, _, _)
DeleteEach(e, nodes, i) ==
    IF i > Len(nodes) THEN e ELSE DeleteEach(TreeDelete(e, nodes[i]), nodes, i + 1)

ModifyNodeOpEachTarget(e, nodes, val) ==
    IF nodes = <<>> THEN Exited(e)
    ELSE LET node == nodes[1]
             src  == node.path
             dest == IF StartsWith(val, <<"/">>) THEN PathStr(val)
                     ELSE PathStr(<<"/">> \o val)
         IN  IF val # <<>>
             THEN LET e1 == IF PathParent(src) # PathParent(dest)
                            THEN ModifyMove(e, node, val) ELSE e
                      e2 == IF PathName(src) # PathName(dest)
                            THEN ModifyRename(e1, node, val, dest) ELSE e1
                  IN  Returned(e2, "False")
             ELSE LET e1 == DeleteEach(e, nodes, 1)
                  IN  Returned([e1 EXCEPT !.tree = TreeSync(e1.tree)], "False")

ModifyNodeOp(e, nodes, val) ==
    IF nodes = <<>> THEN Exited(e)
    ELSE LET node == nodes[1]
             src  == node.path
             dest == IF StartsWith(val, <<"/">>) THEN PathStr(val)
                     ELSE PathStr(<<"/">> \o val)
         IN  IF val # <<>>
             THEN LET e1 == IF PathParent(src) # PathParent(dest)
                            THEN ModifyMove(e, node, val) ELSE e
                      e2 == IF PathName(src) # PathName(dest)
                            THEN ModifyRename(e1, node, val, dest) ELSE e1
                  IN  Returned(e2, "False")
             ELSE LET e1 == TreeDelete(e, node)
                  IN  Returned([e1 EXCEPT !.tree = TreeSync(e1.tree)], "False")

\* the modify lop (lines 1652-1887)
ModifyTargetsByRegex(e, mpath) ==
    IF mpath = <<>> THEN SelectedNodes(e) ELSE TreeNodes(e.tree, mpath)

ModifyTargets(e, mpath) ==
    IF mpath = <<>> THEN SelectedNodes(e)
    ELSE IF Lookup(e.tree, mpath) = NoNode THEN <<>>
    ELSE SubNodes(e.tree, Lookup(e.tree, mpath))

ExecModify(e, f, lt) ==
    IF f.modify = <<>> THEN Returned(e, "False")
    ELSE LET expr == Split(f.modify, ":")
         IN  IF Len(expr) < 3 THEN Raised(e)
             ELSE LET mpath == expr[1]
                      mprop == expr[2]
                      val   == expr[3]
                      nodes == ModifyTargets(e, mpath)
                  IN  IF mpath = <<>> /\ e.selected = <<>> THEN Returned(e, "False")
                      ELSE IF mprop # <<>>
                      THEN IF val = <<>>
                           THEN Returned(ModifyPropDelete(e, nodes, mprop), "False")
                           ELSE Returned(ModifyPropAssign(e, lt, mpath, mprop, val), "False")
                      ELSE ModifyNodeOp(e, nodes, val)

(***************************************************************************)
(* The select lop (lines 834-987)                                          *)
(***************************************************************************)
InSeq(s, x) == \E i \in 1..Len(s) : s[i] = x

\* list.remove(x): the first occurrence goes
RemoveFirst(s, x) ==
    IF ~InSeq(s, x) THEN s
    ELSE LET k == CHOOSE i \in 1..Len(s) : s[i] = x /\ \A j \in 1..(i - 1) : s[j] # x
         IN  SubSeq(s, 1, k - 1) \o SubSeq(s, k + 1, Len(s))

\* LopperProp.compare of a test value with a node's property value: every
\* cell of the test value is a member of the node's value
PropCompare(test, value) == \A i \in 1..Len(test) : InSeq(value, test[i])

\* ss = [sel, poss, alias, tsel]: selected_nodes, selected_nodes_possible,
\* whether the two names are bound to one list, and tree.__selected__
SelAct(ss, a, id) ==
    LET sel2 == IF a = "add" THEN (IF InSeq(ss.sel, id) THEN ss.sel ELSE Append(ss.sel, id))
                ELSE IF a = "remove" THEN RemoveFirst(ss.sel, id)
                ELSE ss.sel
    IN  [ss EXCEPT !.sel = sel2, !.poss = IF ss.alias THEN sel2 ELSE ss.poss]

RECURSIVE SelLoop(_, _, _, _)
SelLoop(ss, snap, dec, i) ==
    IF i > Len(snap) THEN ss
    ELSE SelLoop(SelAct(ss, dec[i], snap[i]), snap, dec, i + 1)

\* one string of a select_N property (lines 866-978)
SelectEntry(t, ss, s) ==
    LET parts  == Split(s, ":")
        three  == Len(parts) = 3
        regex  == IF three THEN parts[1] ELSE s
        prop   == IF three THEN parts[2] ELSE <<>>
        pval   == IF three THEN parts[3] ELSE <<>>
        found  == SeqIds(TreeNodes(t, regex))
        s1     == IF regex # <<>>
                  THEN [ss EXCEPT !.poss = IF ss.poss # <<>> THEN ss.poss \o found ELSE found,
                                  !.alias = FALSE]
                  ELSE IF ss.sel # <<>> THEN [ss EXCEPT !.poss = ss.sel, !.alias = TRUE]
                  ELSE [ss EXCEPT !.poss = ss.tsel, !.alias = FALSE]
        snap   == s1.poss
        invert == HasChar(pval, "!")
        tval   == PropertyConvert(IF StartsWith(pval, <<"!">>) THEN Tail(pval) ELSE pval)
        decV   == [i \in 1..Len(snap) |->
                     LET sl == ById(t, snap[i])
                     IN  IF HasProp(sl, prop)
                         THEN IF PropCompare(tval, PropVal(sl, prop)) # invert THEN "add"
                              ELSE IF regex = <<>> THEN "remove" ELSE "none"
                         ELSE IF regex = <<>> THEN "remove" ELSE "none"]
        exists == ~HasChar(prop, "!")
        pname  == IF StartsWith(prop, <<"!">>) THEN Tail(prop) ELSE prop
        decE   == [i \in 1..Len(snap) |->
                     LET sl == ById(t, snap[i])
                     IN  IF HasProp(sl, pname) = exists THEN "add" ELSE "remove"]
    IN  IF prop # <<>> /\ pval # <<>> THEN SelLoop(s1, snap, decV, 1)
        ELSE IF prop # <<>> THEN SelLoop(s1, snap, decE, 1)
        ELSE [s1 EXCEPT !.sel = s1.poss, !.alias = TRUE]

RECURSIVE SelectValues(_, _, _, _)
SelectValues(t, ss, vals, i) ==
    IF i > Len(vals) THEN ss
    ELSE SelectValues(t, SelectEntry(t, ss, vals[i]), vals, i + 1)

RECURSIVE SelectProps(_, _, _, _)
SelectProps(t, ss, sprops, i) ==
    IF i > Len(sprops) THEN ss
    ELSE IF sprops[i] = << <<>> >>
    THEN SelectProps(t, [ss EXCEPT !.tsel = <<>>], sprops, i + 1)
    ELSE SelectProps(t, SelectValues(t, ss, sprops[i], 1), sprops, i + 1)

\* a select that starts from the selection the tree already holds
ExecSelectKeep(e, f) ==
    LET ss0 == [alias |-> FALSE, poss |-> <<>>, sel |-> e.selected, tsel |-> e.selected]
        ss  == SelectProps(e.tree, ss0, f.select, 1)
    IN  Returned([e EXCEPT !.selected = ss.sel], "False")

ExecSelect(e, f) ==
    LET ss0 == [alias |-> FALSE, poss |-> <<>>, sel |-> <<>>, tsel |-> e.selected]
        ss  == SelectProps(e.tree, ss0, f.select, 1)
    IN  Returned([e EXCEPT !.selected = ss.sel], "False")

(***************************************************************************)
(* The add lop (lines 1389-1434)                                           *)
(***************************************************************************)
ExecAdd(e, f, lt) ==
    IF f.node_src = <<>> THEN Exited(e)
    ELSE LET src_path == f.path \o <<"/">> \o f.node_src
             dest     == IF f.node_dest # <<>> THEN f.node_dest ELSE <<"/">> \o f.node_src
             src      == Lookup(lt, src_path)
         IN  IF src = NoNode THEN Raised(e)
             ELSE Returned([e EXCEPT !.tree =
                      TreeAdd(e.tree, DeepCopy(lt, src, dest, MaxId(e.tree)))], "False")

(***************************************************************************)
(* The conditional lop: the match lists (lines 1450-1535)                  *)
(***************************************************************************)
EndsWith(s, x) == Len(x) <= Len(s) /\ SubSeq(s, Len(s) - Len(x) + 1, Len(s)) = x

NotSuffix == <<"_", "_", "n", "o", "t", "_", "_">>

\* m = [t, f]: tgt_matches and tgt_false_matches; one property of the
\* condition node against one target node
CondStep(m, cprop, tgt) ==
    LET inv   == EndsWith(cprop.name, NotSuffix)
        cname == IF inv THEN SubSeq(cprop.name, 1, Len(cprop.name) - Len(NotSuffix))
                 ELSE cprop.name
        ok    == /\ HasProp(tgt, cname)
                 /\ (PropCompare(cprop.value, PropVal(tgt, cname)) # inv)
    IN  IF ok
        THEN [m EXCEPT !.t = IF InSeq(m.t, tgt.id) THEN m.t ELSE Append(m.t, tgt.id)]
        ELSE [t |-> RemoveFirst(m.t, tgt.id),
              f |-> IF InSeq(m.f, tgt.id) THEN m.f ELSE Append(m.f, tgt.id)]

RECURSIVE CondTargets(_, _, _, _)
CondTargets(m, cprop, tgts, j) ==
    IF j > Len(tgts) THEN m
    ELSE CondTargets(CondStep(m, cprop, tgts[j]), cprop, tgts, j + 1)

RECURSIVE CondProps(_, _, _, _)
CondProps(m, cprops, tgts, i) ==
    IF i > Len(cprops) THEN m
    ELSE CondProps(CondTargets(m, cprops[i], tgts, 1), cprops, tgts, i + 1)

CondMatches(t, last, cond_path) ==
    CondProps([t |-> <<>>, f |-> <<>>], last.props, TreeNodes(t, cond_path), 1)

(***************************************************************************)
(* Lop properties read by name: lop_node['tree'], ['nodes'], ['outfile'],  *)
(* ['load']                                                                *)
(***************************************************************************)
\* lop_node[name].value, [] when the lookup raises
LopValue(f, name) == IF HasProp(f, name) THEN PropVal(f, name) ELSE <<>>

\* lop_node[name].value[0] as a string, "" when the lookup raises
LopString(f, name) == IF LopValue(f, name) = <<>> THEN <<>> ELSE LopValue(f, name)[1].s

\* the tree a lop works on (lines 1010-1018): the named subtree, the main
\* tree when the lop names none; the sys.exit(1) for an unknown name is
\* raised inside the outer try and caught by its bare except, which takes
\* the main tree
TargetIsSubtree(e, f) ==
    /\ LopString(f, <<"t", "r", "e", "e">>) \in DOMAIN e.subtrees
    /\ e.subtrees[LopString(f, <<"t", "r", "e", "e">>)] # <<>>

TargetTree(e, f) == IF TargetIsSubtree(e, f) THEN e.subtrees[LopString(f, <<"t", "r", "e", "e">>)] ELSE e.tree

\* tree.__selected__ of that tree; no lop of the model selects in a subtree
TargetSelected(e, f) == IF TargetIsSubtree(e, f) THEN <<>> ELSE e.selected

\* the engine as a select, add or modify lop sees it: `tree` is the tree the
\* lookup of lines 837-845, 1399-1407 and 1661-1669 yields
Retargeted(e, f) ==
    IF TargetIsSubtree(e, f)
    THEN [e EXCEPT !.tree = TargetTree(e, f), !.selected = TargetSelected(e, f)]
    ELSE e

\* the engine after such a lop: what the lop did to a subtree stays in the
\* subtree table and the main tree and its selection are as before (the
\* selection set of a subtree is not kept)
Restored(e, f, r) ==
    IF TargetIsSubtree(e, f)
    THEN [r EXCEPT !.tree = e.tree, !.selected = e.selected,
                   !.subtrees[LopString(f, <<"t", "r", "e", "e">>)] = r.tree]
    ELSE r

(***************************************************************************)
(* The node filter of the output and tree lops (lines 1041-1094 and        *)
(* 1166-1211)                                                              *)
(***************************************************************************)
\* one entry "regex[:prop[:val]]" of the nodes property; acc is the list of
\* node ids gathered so far
GatherEntry(t, acc, s) ==
    LET parts  == Split(s, ":")
        re0    == parts[1]
        pname  == IF Len(parts) > 1 THEN parts[2] ELSE <<>>
        pval   == IF Len(parts) > 2 THEN parts[3] ELSE <<>>
        re     == IF HasChar(re0, "/") THEN re0 ELSE <<".", "*">> \o re0
        byPath == TreeNodes(t, re)
        found  == IF byPath # <<>> THEN byPath ELSE LNodes(t, re)
        keep   == SelectSeq(found, LAMBDA o :
                      /\ o.id \notin {acc[i] : i \in 1..Len(acc)}
                      /\ IF pname = <<>> THEN TRUE
                         ELSE /\ pval # <<>>
                              /\ HasProp(o, pname)
                              /\ InSeq(PropVal(o, pname), StrV(pval)))
    IN  acc \o SeqIds(keep)

RECURSIVE GatherNodes(_, _, _, _)
GatherNodes(t, acc, regexes, i) ==
    IF i > Len(regexes) THEN acc
    ELSE GatherNodes(t, GatherEntry(t, acc, regexes[i].s), regexes, i + 1)

\* LopperTreePrinter(): a tree with its root only
EmptyTree == <<Node(1, <<"/">>, <<>>, <<>>, 0)>>

\* new_tree + on() for every gathered node: deep copies at their own paths
RECURSIVE CopyInto(_, _, _, _)
CopyInto(out, t, ids, i) ==
    IF i > Len(ids) THEN out
    ELSE LET on == ById(t, ids[i])
         IN  CopyInto(TreeAdd(out, DeepCopy(t, on, on.path, MaxId(out))), t, ids, i + 1)

HasStar(regexes) == \E i \in 1..Len(regexes) : regexes[i].s = <<"*">>

(***************************************************************************)
(* The assist table (lines 70-78, 328-337, 497-566, 674-738, 1302-1387).   *)
(* A file path is the sequence of its segments; a path of one segment is   *)
(* relative.  An assist entry holds the file string it was registered      *)
(* with, the module loaded for it (the module's file, <<>> while none is   *)
(* loaded) and its properties mask and id.                                 *)
(***************************************************************************)
\* lopper_directory and lopper_directory + "/assists/"
SearchPaths == <<"lopper", "lopper/assists">>

\* the python modules that exist, by absolute path
ModuleFiles == {<<"lopper/assists", "m.py">>, <<"cwd", "n.py">>, <<"lopper/assists", "w.py">>}

\* Path(p).resolve()
Resolve(p) == IF Len(p) = 1 THEN <<"cwd">> \o p ELSE p

\* assist_find (lines 513-566): the path as given when it exists; else the
\* loop walks every search path without a break and keeps the candidate and
\* the result of the last one
AssistFind(p) ==
    IF Resolve(p) \in ModuleFiles THEN p
    ELSE LET c == <<Last(SearchPaths), Last(p)>>
         IN  IF c \in ModuleFiles THEN c ELSE <<>>

\* what the module at that file answers: file_ext() and id()
ModuleExt(m) == IF Last(m) \in {"m.py", "w.py"} THEN <<".", "x">> ELSE <<>>

ModuleId(m) == <<"i", "d", ",">> \o <<Last(m)>>

Assist(file, module, mask, aid) == [file |-> file, module |-> module, mask |-> mask, aid |-> aid]

\* assists_setup (lines 328-335), one command-line assist
RegisterAssist(e, a) ==
    IF AssistFind(a) = <<>> THEN e
    ELSE [e EXCEPT !.assists = Append(e.assists, Assist(Resolve(AssistFind(a)), <<>>, <<>>, <<>>))]

\* module.is_compat(node, id): the module's callback for its own id,
\* a false value otherwise; w.py answers with its callback for every id
IsCompat(m, id) == IF id = ModuleId(m) \/ Last(m) = "w.py" THEN m ELSE <<>>

\* what the callback of a module does when it is called: the one of m.py
\* does its work and returns True, the one of n.py returns False, the one
\* of w.py raises
CallResult(m) ==
    IF Last(m) = "m.py" THEN "true" ELSE IF Last(m) = "n.py" THEN "false" ELSE "raise"

\* find_compatible_assist (lines 699-738): the result is <<"ok", cb_func>>,
\* or <<"exc", ...>> when cb_f is read before it was ever assigned
RECURSIVE FcaLoop(_, _, _, _, _, _)
FcaLoop(as, i, cb_id, mask, cb_f, funcs) ==
    IF i > Len(as) THEN <<"ok", funcs>>
    ELSE IF as[i].module = <<>> THEN FcaLoop(as, i + 1, cb_id, mask, cb_f, funcs)
    ELSE LET id2     == IF cb_id = <<>> THEN as[i].aid ELSE cb_id
             mask_ok == ~(mask # <<>> /\ as[i].mask # <<>>) \/ mask = as[i].mask
             f2      == IF mask_ok THEN IsCompat(as[i].module, id2) ELSE cb_f
         IN  IF f2 = <<"unbound">> THEN <<"exc", funcs>>
             ELSE FcaLoop(as, i + 1, id2, mask, f2,
                          IF f2 # <<>> THEN Append(funcs, f2) ELSE funcs)

FindCompatibleAssist(e, cb_id, mask) == FcaLoop(e.assists, 1, cb_id, mask, <<"unbound">>, <<>>)

\* os.path.splitext(name)[1]
SplitExt(name) ==
    IF ~HasChar(name, ".") THEN <<>>
    ELSE LET k == CHOOSE i \in 1..Len(name) :
                      name[i] = "." /\ \A j \in (i + 1)..Len(name) : name[j] # "."
         IN  SubSeq(name, k, Len(name))

\* the loop over the callables find_compatible_assist returned (lines
\* 473-489 for an output file, 1285-1296 for an assist-v1 lop): each one is
\* called; a false return is a warning; an exception is a warning, and the
\* end of the run when werror is set.  A callback that does its work for
\* an output file writes the tree it was handed
RECURSIVE CallAssists(_, _, _, _)
CallAssists(e, funcs, i, name) ==
    IF i > Len(funcs) THEN e
    ELSE LET r  == CallResult(funcs[i])
             e1 == [e EXCEPT !.calls = Append(e.calls, <<funcs[i], r>>)]
             e2 == IF r = "true" /\ name # <<>> THEN [e1 EXCEPT !.files[name] = e.tree] ELSE e1
         IN  IF r = "raise" /\ e.werror THEN Exited(e2)
             ELSE CallAssists(e2, funcs, i + 1, name)

\* LopperSDT.write(fdt, name, overwrite, enhanced) (lines 409-495) with the
\* tree to write: .dtb and .dts write that tree; .yaml serialises
\* self.tree; any other extension goes to the compatible assists, which
\* are handed the fdt after self.tree was synced into it
WriteFile(e, out, name, overwrite) ==
    IF name = <<>> THEN e
    ELSE IF ReSearch(<<".", "d", "t", "b">>, name) \/ ReSearch(<<".", "d", "t", "s">>, name)
    THEN IF e.files[name] # <<>> /\ ~overwrite THEN Exited(e)
         ELSE [e EXCEPT !.files[name] = out]
    ELSE IF ReSearch(<<".", "y", "a", "m", "l">>, name)
    THEN IF e.files[name] # <<>> /\ ~overwrite THEN Exited(e)
         ELSE [e EXCEPT !.files[name] = e.tree]
    ELSE LET cb == FindCompatibleAssist(e, <<>>, SplitExt(name))
             e1 == [e EXCEPT !.found = cb]
         IN  IF cb[1] = "exc" THEN Raised(e1)
             ELSE IF cb[2] # <<>> THEN CallAssists(e1, cb[2], 1, name)
             ELSE IF e.werror THEN Exited(e1)
             ELSE e1

\* an output lop that writes its file in a dryrun run as well
ExecOutputAlways(e, f) ==
    LET name   == LopString(f, <<"o", "u", "t", "f", "i", "l", "e">>)
        tree   == TargetTree(e, f)
        regex  == LopValue(f, <<"n", "o", "d", "e", "s">>)
        sel    == IF regex = <<>> THEN TargetSelected(e, f) ELSE <<>>
        gather == GatherNodes(tree, <<>>, regex, 1)
        out    == IF regex = <<>> THEN <<>>
                  ELSE IF HasStar(regex) THEN tree
                  ELSE IF gather # <<>> THEN CopyInto(EmptyTree, tree, gather, 1)
                  ELSE <<>>
    IN  IF ~HasProp(f, <<"o", "u", "t", "f", "i", "l", "e">>) THEN Exited(e)
        ELSE IF regex = <<>> /\ sel = <<>> THEN Returned(e, "False")
        ELSE IF out = <<>> THEN Returned(e, "False")
        ELSE LET e1 == WriteFile(e, out, name, TRUE)
             IN  IF e1.status = "ok" THEN Returned(e1, "False") ELSE e1

\* the output lop (lines 1000-1131)
ExecOutput(e, f) ==
    LET name   == LopString(f, <<"o", "u", "t", "f", "i", "l", "e">>)
        tree   == TargetTree(e, f)
        regex  == LopValue(f, <<"n", "o", "d", "e", "s">>)
        sel    == IF regex = <<>> THEN TargetSelected(e, f) ELSE <<>>
        gather == GatherNodes(tree, <<>>, regex, 1)
        out    == IF regex = <<>> THEN <<>>
                  ELSE IF HasStar(regex) THEN tree
                  ELSE IF gather # <<>> THEN CopyInto(EmptyTree, tree, gather, 1)
                  ELSE <<>>
    IN  IF ~HasProp(f, <<"o", "u", "t", "f", "i", "l", "e">>) THEN Exited(e)
        ELSE IF regex = <<>> /\ sel = <<>> THEN Returned(e, "False")
        ELSE IF out = <<>> \/ e.dryrun THEN Returned(e, "False")
        ELSE LET e1 == WriteFile(e, out, name, TRUE)
             IN  IF e1.status = "ok" THEN Returned(e1, "False") ELSE e1

\* the assist-v1 lop (lines 1237-1300)
ExecAssist(e, f) ==
    LET cb_id == LopString(f, <<"i", "d">>)
        cb    == FindCompatibleAssist(e, cb_id, <<>>)
        e1    == [e EXCEPT !.found = cb]
    IN  IF f.node = <<>> THEN Exited(e)
        ELSE IF TreeNodes(e.tree, f.node) = <<>>
        THEN IF e.werror THEN Exited(e) ELSE Returned(e, "None")
        ELSE IF cb[1] = "exc" THEN Raised(e1)
        ELSE LET e2 == CallAssists(e1, cb[2], 1, <<>>)
             IN  IF e2.status = "ok" THEN Returned(e2, "False") ELSE e2

\* the meta lop with the argument phandle-desc (lines 989-998): the map is
\* created anew and gets one entry for each property but compatible
ExecMeta(e, f) ==
    LET ps == SelectSeq(f.props, LAMBDA p : p.name # <<"c", "o", "m", "p", "a", "t", "i", "b", "l", "e">>)
    IN  Returned([e EXCEPT !.pdesc = [i \in 1..Len(ps) |-> <<ps[i].name, <<ps[i].value[1]>> >>]],
                 "False")

\* the tree lop (lines 1133-1234)
ExecTree(e, f) ==
    LET name   == LopString(f, <<"t", "r", "e", "e">>)
        regex  == LopValue(f, <<"n", "o", "d", "e", "s">>)
        sel    == IF regex = <<>> THEN e.selected ELSE <<>>
        gather == GatherNodes(e.tree, <<>>, regex, 1)
        new    == IF regex = <<>> THEN <<>>
                  ELSE IF HasStar(regex) THEN e.fdt
                  ELSE IF gather # <<>> THEN CopyInto(EmptyTree, e.tree, gather, 1)
                  ELSE <<>>
    IN  IF ~HasProp(f, <<"t", "r", "e", "e">>) THEN Exited(e)
        ELSE IF regex = <<>> /\ sel = <<>> THEN Returned(e, "False")
        ELSE IF new = <<>> THEN Exited(e)
        ELSE Returned([e EXCEPT !.subtrees =
                  [n \in DOMAIN e.subtrees \cup {name} |-> IF n = name THEN new ELSE e.subtrees[n]]],
                  "False")

\* the load lop (lines 1302-1387); the load property is the file path as
\* the sequence of its segments
ExecLoad(e, f) ==
    LET load_prop == LopString(f, <<"l", "o", "a", "d">>)
        mod_file  == AssistFind(load_prop)
        module    == Resolve(mod_file)
        known     == {i \in 1..Len(e.assists) : Resolve(e.assists[i].file) = Resolve(mod_file)}
        updated   == [i \in 1..Len(e.assists) |->
                         IF i \in known
                         THEN [e.assists[i] EXCEPT !.module = module,
                                                   !.mask = ModuleExt(module),
                                                   !.aid = ModuleId(module)]
                         ELSE e.assists[i]]
        entry     == Assist(<<Last(mod_file)>>, module, ModuleExt(module), ModuleId(module))
    IN  IF load_prop = <<>> THEN Returned(e, "False")
        ELSE IF mod_file = <<>> THEN Exited(e)
        ELSE IF known # {} THEN Returned([e EXCEPT !.assists = updated], "False")
        ELSE Returned([e EXCEPT !.assists = Append(e.assists, entry)], "False")

(***************************************************************************)
(* exec_lop (lines 740-1890)                                               *)
(***************************************************************************)
NoOpts == [start_node |-> <<>>]

Logged(e, f, fi, via, opts) ==
    [e EXCEPT !.trace = Append(e.trace,
        [path |-> f.path, file |-> fi, via |-> via, start |-> opts.start_node])]

RECURSIVE ExecLop(_, _, _, _, _, _, _)
RECURSIVE RunChain(_, _, _, _, _, _, _, _)
RECURSIVE RunMatches(_, _, _, _, _, _, _, _)

\* the true* (or false*) children for one match (lines 1543-1559): stops at
\* the first child that returns False
Caught(e) == IF e.status = "exc" THEN [e EXCEPT !.status = "ok", !.ret = "False"] ELSE e

RunChain(e, kids, k, prefix, start, lt, fi, depth) ==
    IF k > Len(kids) THEN e
    ELSE IF ~StartsWith(kids[k].name, prefix)
    THEN RunChain(e, kids, k + 1, prefix, start, lt, fi, depth)
    ELSE LET e1 == Caught(ExecLop(e, kids[k], lt, fi, "cond", [start_node |-> start], depth + 1))
         IN  IF e1.status = "exit" \/ e1.ret = "False" THEN e1
             ELSE RunChain(e1, kids, k + 1, prefix, start, lt, fi, depth)

\* the loop over the matches (lines 1539-1585)
RunMatches(e, ms, j, kids, prefix, lt, fi, depth) ==
    IF j > Len(ms) \/ e.status = "exit" THEN e
    ELSE RunMatches(RunChain(e, kids, 1, prefix, ms[j], lt, fi, depth),
                    ms, j + 1, kids, prefix, lt, fi, depth)

TrueName == <<"t", "r", "u", "e">>

FalseName == <<"f", "a", "l", "s", "e">>

ExecConditional(e, f, lt, fi, depth) ==
    LET kids  == SubNodes(lt, f)
        root  == IF f.cond_root # <<>> THEN f.cond_root ELSE <<"/">>
        start == Lookup(lt, f.path \o <<"/">> \o root)
    IN  IF start = NoNode THEN Returned(e, "False")
        ELSE LET cond_nodes == SubNodes(lt, start)
                 last       == cond_nodes[Len(cond_nodes)]
                 cond_path  == ReSubLiteral(f.path, last.path)
                 m          == CondMatches(e.tree, last, cond_path)
                 pathsT     == [i \in 1..Len(m.t) |-> ById(e.tree, m.t[i]).path]
                 pathsF     == [i \in 1..Len(m.f) |-> ById(e.tree, m.f[i]).path]
             IN  IF TreeNodes(e.tree, cond_path) = <<>> THEN Returned(e, "False")
                 ELSE LET e1 == RunMatches(e, pathsT, 1, kids, TrueName, lt, fi, depth)
                          e2 == RunMatches(e1, pathsF, 1, kids, FalseName, lt, fi, depth)
                      IN  IF e2.status = "exit" THEN e2 ELSE Returned(e2, "False")

\* the exec lop (lines 770-817)
ExecExec(e, f, lt, fi, opts, depth) ==
    LET node_spec == IF f.node # <<>> THEN f.node
                     ELSE IF e.selected # <<>> THEN ById(e.tree, e.selected[1]).path
                     ELSE <<>>
        target    == PNode(lt, f.exec)
        opts2     == IF node_spec # <<>> THEN [opts EXCEPT !.start_node = node_spec] ELSE opts
    IN  IF target = NoNode THEN Returned(e, "False")
        ELSE Caught(ExecLop(e, target, lt, fi, "exec", opts2, depth + 1))

\* the code lop (lines 1587-1650): the script is an external capability;
\* the lop returns what the script returns
ExecCode(e, f) == Returned(e, f.code_ret)

ExecLop(e0, f, lt, fi, via, opts, depth) ==
    IF depth > MaxDepth \/ f.kind = "none" THEN Raised(e0)
    ELSE LET e == Logged(e0, f, fi, via, opts)
         IN  CASE f.kind = "exec"        -> ExecExec(e, f, lt, fi, opts, depth)
               [] f.kind = "select"      -> Restored(e, f, ExecSelect(Retargeted(e, f), f))
               [] f.kind = "add"         -> Restored(e, f, ExecAdd(Retargeted(e, f), f, lt))
               [] f.kind = "conditional" -> ExecConditional(e, f, lt, fi, depth)
               [] f.kind = "code"        -> ExecCode(e, f)
               [] f.kind = "modify"      -> Restored(e, f, ExecModify(Retargeted(e, f), f, lt))
               [] f.kind = "output"      -> ExecOutput(e, f)
               [] f.kind = "tree"        -> ExecTree(e, f)
               [] f.kind = "load"        -> ExecLoad(e, f)
               [] f.kind = "assist"      -> ExecAssist(e, f)
               [] f.kind = "meta"        -> ExecMeta(e, f)
               [] OTHER                  -> Returned(e, "False")

(***************************************************************************)
(* Lop trees                                                               *)
(***************************************************************************)
LopNode(i, p, k) ==
    [id |-> i, label |-> <<>>, name |-> PathName(p), path |-> p, phandle |-> 0,
     props |-> <<>>, node |-> <<>>, modify |-> <<>>, select |-> <<>>,
     node_src |-> <<>>, node_dest |-> <<>>, cond_root |-> <<>>, exec |-> 0,
     code_ret |-> "True", kind |-> k, noexec |-> FALSE]

NoLop == LopNode(0, <<>>, "none")

\* the string "path:prop:val"
Colon3(a, b, c) == a \o <<":">> \o b \o <<":">> \o c

Foo == <<"f", "o", "o">>

PA == <<"/", "a">>

PAB == <<"/", "a", "/", "b">>

PAb == <<"/", "a", "b">>

PC == <<"/", "c">>

One == <<IntV(1)>>

\* file A of the priority scenario: add /foo
FileAdd ==
    << LopNode(1, <<"/">>, "none"),
       [LopNode(2, <<"/", "x">>, "add") EXCEPT !.node_src = Foo],
       [LopNode(3, <<"/", "x", "/">> \o Foo, "none") EXCEPT !.props = <<Prop(<<"v">>, One)>>] >>

\* file B of the priority scenario: delete /foo
FileDel ==
    << LopNode(1, <<"/">>, "none"),
       [LopNode(2, <<"/", "y">>, "modify") EXCEPT !.modify = Colon3(<<"/">> \o Foo, <<>>, <<>>)] >>

Catalogue ==
    LET \* two conditionals one after another, a noexec lop and an exec lop that
        \* refers to it
        FileCond ==
            << LopNode(1, <<"/">>, "none"),
               [LopNode(2, <<"/", "k">>, "conditional") EXCEPT !.cond_root = <<"a">>],
               [LopNode(3, <<"/", "k", "/", "a">>, "none") EXCEPT !.props = <<Prop(<<"p">>, One)>>],
               [LopNode(4, <<"/", "k", "/">> \o TrueName, "code") EXCEPT !.code_ret = "True"],
               [LopNode(5, <<"/", "k", "/">> \o TrueName \o <<"2">>, "modify") EXCEPT
                    !.modify = Colon3(PC, <<"e">>, <<"1">>), !.noexec = TRUE],
               [LopNode(6, <<"/", "k", "/">> \o FalseName, "modify") EXCEPT
                    !.modify = Colon3(PAb, <<"q">>, <<>>)],
               [LopNode(7, <<"/", "m">>, "conditional") EXCEPT !.cond_root = <<"c">>],
               [LopNode(8, <<"/", "m", "/", "c">>, "none") EXCEPT
                    !.props = <<Prop(<<"p", "_", "_", "n", "o", "t", "_", "_">>, One)>>],
               [LopNode(9, <<"/", "m", "/">> \o TrueName, "modify") EXCEPT
                    !.modify = Colon3(PC, <<"q">>, <<"2">>)],
               [LopNode(10, <<"/", "n">>, "modify") EXCEPT
                    !.modify = Colon3(PA, <<"r">>, <<"3">>), !.noexec = TRUE, !.phandle = 4],
               [LopNode(11, <<"/", "o">>, "exec") EXCEPT !.exec = 4],
               [LopNode(12, <<"/", "p">>, "select") EXCEPT !.select = << <<PC>> >>],
               [LopNode(13, <<"/", "q">>, "modify") EXCEPT !.modify = Colon3(<<>>, <<>>, <<>>)] >>
        \* a conditional with a conditional among its true children
        FileNested ==
            << LopNode(1, <<"/">>, "none"),
               [LopNode(2, <<"/", "k">>, "conditional") EXCEPT !.cond_root = <<"a">>],
               [LopNode(3, <<"/", "k", "/", "a">>, "none") EXCEPT !.props = <<Prop(<<"p">>, One)>>],
               [LopNode(4, <<"/", "k", "/">> \o TrueName, "conditional") EXCEPT !.cond_root = <<"c">>],
               [LopNode(5, <<"/", "k", "/">> \o TrueName \o <<"/", "c">>, "none") EXCEPT
                    !.props = <<Prop(<<"p">>, One)>>],
               [LopNode(6, <<"/", "k", "/">> \o TrueName \o <<"/">> \o TrueName, "code") EXCEPT
                    !.code_ret = "False"],
               [LopNode(7, <<"/", "k", "/">> \o TrueName \o <<"2">>, "modify") EXCEPT
                    !.modify = Colon3(PC, <<"e">>, <<"1">>)] >>
    IN  {FileAdd, FileDel, FileCond, FileNested}

MaxFiles == 2

LopFile(body, prio) == [tree |-> body, priority |-> prio]

LopLists ==
    LET \* the priority property of a lop file's root: absent, or one number
        Priorities == {<<>>, <<1>>, <<3>>, <<10>>}
        LopFiles == {LopFile(b, q) : b \in Catalogue, q \in Priorities}
    IN  UNION {[1..n -> LopFiles] : n \in 1..MaxFiles}

(***************************************************************************)
(* Main trees                                                              *)
(***************************************************************************)
T0 ==
    << Node(1, <<"/">>, <<>>, <<>>, 0),
       Node(2, PA, <<Prop(<<"p">>, One)>>, <<>>, 0),
       Node(3, PAB, <<Prop(<<"p">>, One), Prop(<<"q">>, <<StrV(<<"x">>)>>)>>, <<>>, 3),
       Node(4, PAb, <<Prop(<<"p">>, <<IntV(2)>>)>>, <<"b">>, 5),
       Node(5, PC, <<Prop(<<"p">>, One)>>, <<"l">>, 7) >>

\* the files the output lops write; the tree lops store subtrees under the
\* name "s"
OutFiles ==
    { <<"o", ".", "d", "t", "b">>, <<"o", ".", "d", "t", "s">>,
      <<"o", ".", "y", "a", "m", "l">>, <<"o", ".", "x">>, <<"o", ".", "z">> }

\* LopperSDT.__init__ and setup: FDT is the flattened tree the main tree was
\* loaded from; a subtree or file that does not exist is <<>>
Engine(t) ==
    [tree |-> t, selected |-> <<>>, ret |-> "None", status |-> "ok",
     found |-> <<"ok", <<>> >>, subtrees |-> [n \in {<<"s">>} |-> <<>>],
     assists |-> <<>>, calls |-> <<>>, files |-> [o \in OutFiles |-> <<>>],
     werror |-> FALSE, dryrun |-> FALSE, pdesc |-> <<>>, fdt |-> t,
     trace |-> <<>>, force |-> FALSE, output_file |-> <<>>]

(***************************************************************************)
(* perform_lops (lines 1892-1998)                                          *)
(***************************************************************************)
\* lines 1954-1958
FilePriority(x) == IF x.priority = <<>> THEN 5 ELSE x.priority[1]

\* lines 1922-1960: the buckets, filled in the order of self.lops
RECURSIVE BucketsPrepend(_, _, _)
BucketsPrepend(rq, ls, i) ==
    IF i > Len(ls) THEN rq
    ELSE BucketsPrepend([rq EXCEPT ![FilePriority(ls[i])] = <<i>> \o @], ls, i + 1)

RECURSIVE Buckets(_, _, _)
Buckets(rq, ls, i) ==
    IF i > Len(ls) THEN rq
    ELSE Buckets([rq EXCEPT ![FilePriority(ls[i])] = Append(@, i)], ls, i + 1)

EmptyQueue == [q \in 1..9 |-> <<>>]

InitRun ==
    /\ sdt = Engine(T0)
    /\ lops \in LopLists
    /\ runqueue = EmptyQueue
    /\ pc = "start"
    /\ pri = 1 /\ fidx = 1 /\ nidx = 1
    /\ skip_list = {}
    /\ pre = sdt
    /\ op = NoLop
    /\ steps = 0

\* lops_runqueue[lops_file_priority].append(x) raises KeyError for a
\* priority that is no key of the run queue
BuildRunqueue ==
    /\ pc = "start"
    /\ \A i \in 1..Len(lops) : FilePriority(lops[i]) \in 1..9
    /\ runqueue' = Buckets(EmptyQueue, lops, 1)
    /\ pc' = "run"
    /\ UNCHANGED <<sdt, lops, pri, fidx, nidx, skip_list, pre, op, steps>>

BuildRunqueueFails ==
    /\ pc = "start"
    /\ \E i \in 1..Len(lops) : FilePriority(lops[i]) \notin 1..9
    /\ pc' = "crashed"
    /\ UNCHANGED <<sdt, lops, runqueue, pri, fidx, nidx, skip_list, pre, op, steps>>

InFile == pc = "run" /\ fidx <= Len(runqueue[pri])

CurFileIdx == runqueue[pri][fidx]

CurTree == lops[CurFileIdx].tree

AtNode == InFile /\ nidx <= Len(CurTree)

CurNode == CurTree[nidx]

\* line 1966: the next priority
NextPri ==
    /\ pc = "run" /\ fidx > Len(runqueue[pri]) /\ pri < 9
    /\ pri' = pri + 1 /\ fidx' = 1 /\ nidx' = 1
    /\ UNCHANGED <<sdt, lops, runqueue, pc, skip_list, pre, op, steps>>

Finish ==
    /\ pc = "run" /\ fidx > Len(runqueue[pri]) /\ pri = 9
    /\ pc' = "done"
    /\ UNCHANGED <<sdt, lops, runqueue, pri, fidx, nidx, skip_list, pre, op, steps>>

\* lines 1967-1971: the next file of the bucket, with an empty skip_list
NextFile ==
    /\ InFile /\ nidx > Len(CurTree)
    /\ fidx' = fidx + 1 /\ nidx' = 1 /\ skip_list' = {}
    /\ UNCHANGED <<sdt, lops, runqueue, pc, pri, pre, op, steps>>

\* lines 1973-1974: a node that is no lop
SkipNode ==
    /\ AtNode /\ CurNode.kind = "none"
    /\ nidx' = nidx + 1
    /\ UNCHANGED <<sdt, lops, runqueue, pc, pri, fidx, skip_list, pre, op, steps>>

\* lines 1979-1983
SkipListAfter(f, lt, sl) ==
    IF f.kind = "conditional" THEN Ids(SubNodes(lt, f)) \ {f.id} ELSE sl

\* lines 1985-1990: noexec, or in the skip list
SkippedOnlyBySkipList(f, sl) == f.id \in sl

Skipped(f, sl) == f.noexec \/ f.id \in sl

\* lines 1985-1993: noexec, or below a conditional
SkipLop ==
    /\ AtNode /\ CurNode.kind # "none"
    /\ skip_list' = SkipListAfter(CurNode, CurTree, skip_list)
    /\ Skipped(CurNode, skip_list')
    /\ nidx' = nidx + 1
    /\ UNCHANGED <<sdt, lops, runqueue, pc, pri, fidx, pre, op, steps>>

\* line 1998
RunLop ==
    /\ AtNode /\ CurNode.kind # "none"
    /\ skip_list' = SkipListAfter(CurNode, CurTree, skip_list)
    /\ ~Skipped(CurNode, skip_list')
    /\ sdt' = ExecLop(sdt, CurNode, CurTree, CurFileIdx, "top", NoOpts, 0)
    /\ pre' = sdt
    /\ op' = CurNode
    /\ pc' = IF sdt'.status = "exit" THEN "exited"
             ELSE IF sdt'.status = "exc" THEN "crashed" ELSE "run"
    /\ nidx' = nidx + 1
    /\ UNCHANGED <<lops, runqueue, pri, fidx, steps>>

(***************************************************************************)
(* exec_lop applied directly: one select or modify lop at a time, with     *)
(* its strings drawn from small sets, against the main tree                *)
(***************************************************************************)
MaxSteps == 2

\* the entries of the select lops: select_1, select_2, ... in order, each with
\* its list of strings
SelInputs ==
    LET SelA == <<PA>>
        SelC == <<PC>>
        SelAll_p1 == <<Colon3(<<"/", ".", "*">>, <<"p">>, <<"1">>)>>
        SelA_p1 == <<Colon3(PA, <<"p">>, <<"1">>)>>
        SelA_p2 == <<Colon3(PA, <<"p">>, <<"2">>)>>
        SelZ_p1 == <<Colon3(<<"/", "z">>, <<"p">>, <<"1">>)>>
        SelC_qx == <<Colon3(PC, <<"q">>, <<"x">>)>>
        SelAll_pNot1 == <<Colon3(<<"/", ".", "*">>, <<"p">>, <<"!", "1">>)>>
        SelAll_qxBang == <<Colon3(<<"/", ".", "*">>, <<"q">>, <<"x", "!">>)>>
        SelBelowA == <<<<"/", "a", "/", ".", "*">>>>
        SelBelowA_q == <<Colon3(<<"/", "a", "/", ".", "*">>, <<"q">>, <<>>)>>
        SelPrev_q == <<Colon3(<<>>, <<"q">>, <<>>)>>
        SelPrev_p1 == <<Colon3(<<>>, <<"p">>, <<"1">>)>>
        SelClear == << <<>> >>
    IN
    { <<SelA>>, <<SelC>>, <<SelAll_p1>>, <<SelA_p1>>, <<SelBelowA_q>>, <<SelClear>>,
      <<SelAll_pNot1>>, <<SelAll_qxBang>>, <<SelPrev_p1>>,
      <<SelA_p1, SelPrev_q>>, <<SelZ_p1, SelPrev_p1>>,
      <<SelBelowA, SelC>>, <<SelA_p2, SelC_qx>>, <<SelA_p2, SelC>>,
      <<SelA, SelClear>>, <<SelClear, SelPrev_p1>> }

\* the lop tree the lop stands in; /n carries a label and a phandle of its own
OpsLopTree(lop) ==
    << LopNode(1, <<"/">>, "none"), lop,
       [LopNode(3, <<"/", "n">>, "none") EXCEPT !.label = <<"k">>, !.phandle = 9,
                                                !.props = <<Prop(<<"p">>, <<IntV(4)>>)>>] >>

ModifyLop(mpath, mprop, val) ==
    [LopNode(2, <<"/", "m">>, "modify") EXCEPT !.modify = Colon3(mpath, mprop, val)]

SelectLop(sp) == [LopNode(2, <<"/", "m">>, "select") EXCEPT !.select = sp]

InitOps ==
    /\ sdt = Engine(T0)
    /\ lops = <<>>
    /\ runqueue = EmptyQueue
    /\ pc = "ops"
    /\ pri = 1 /\ fidx = 1 /\ nidx = 1
    /\ skip_list = {}
    /\ pre = sdt
    /\ op = NoLop
    /\ steps = 0

ApplyIn(lop, lt) ==
    /\ pc = "ops" /\ steps < MaxSteps
    /\ pre' = [sdt EXCEPT !.trace = <<>>]
    /\ op' = lop
    /\ sdt' = ExecLop(pre', lop, lt, 0, "top", NoOpts, 0)
    /\ pc' = IF sdt'.status = "exit" THEN "exited"
             ELSE IF sdt'.status = "exc" THEN "crashed" ELSE "ops"
    /\ steps' = steps + 1
    /\ UNCHANGED <<lops, runqueue, pri, fidx, nidx, skip_list>>

Apply(lop) == ApplyIn(lop, OpsLopTree(lop))

ApplyModify ==
    LET PathInputs == {<<>>, PA, PAB, PC, <<"/", "z">>}
        PropInputs == {<<>>, <<"p">>, <<"q">>}
        \* values of a property operation: delete, a number, a string, and
        \* references &NAME and &NAME#FIELD
        PropVals ==
            { <<>>, <<"1">>,
              <<"&", "l">>, <<"&", "b">>, <<"&", "k">>, <<"&", "z">>,
              <<"&", "l", "#", "p">>, <<"&", "l", "#", "q">> }
        \* values of a node operation: delete, and destination paths
        NodeVals ==
            { <<>>, <<"/", "a", "/", "c">>, <<"/", "c", "/", "b">>, <<"/", "c", "/", "d">>,
              PAb, <<"/", "d">> }
    IN  \E mpath \in PathInputs, mprop \in PropInputs :
            \E val \in (IF mprop = <<>> THEN NodeVals ELSE PropVals) :
                Apply(ModifyLop(mpath, mprop, val))

ApplySelect == \E sp \in SelInputs : Apply(SelectLop(sp))

\* conditional lops with their condition chain and their true*/false*
\* children; the condition node /a is looked up in the main tree
CondNode(name, cprops) ==
    << [LopNode(2, <<"/">> \o name, "conditional") EXCEPT !.cond_root = <<"a">>],
       [LopNode(3, <<"/">> \o name \o <<"/", "a">>, "none") EXCEPT !.props = cprops] >>

CodeLop(i, p, r) == [LopNode(i, p, "code") EXCEPT !.code_ret = r]

CondTrees ==
    LET Prop_p1 == Prop(<<"p">>, One)
        Prop_qx == Prop(<<"q">>, <<StrV(<<"x">>)>>)
        Prop_pNot1 == Prop(<<"p">> \o NotSuffix, One)
        \* both condition properties, in the two orders, and a negated one
        CondK1 ==
            <<LopNode(1, <<"/">>, "none")>> \o CondNode(<<"k", "1">>, <<Prop_p1, Prop_qx>>) \o
            << CodeLop(4, <<"/", "k", "1", "/">> \o TrueName, "True"),
               CodeLop(5, <<"/", "k", "1", "/">> \o FalseName, "True") >>
        CondK2 ==
            <<LopNode(1, <<"/">>, "none")>> \o CondNode(<<"k", "2">>, <<Prop_qx, Prop_p1>>) \o
            << CodeLop(4, <<"/", "k", "2", "/">> \o TrueName, "True"),
               CodeLop(5, <<"/", "k", "2", "/">> \o FalseName, "True") >>
        CondK3 ==
            <<LopNode(1, <<"/">>, "none")>> \o CondNode(<<"k", "3">>, <<Prop_pNot1>>) \o
            << CodeLop(4, <<"/", "k", "3", "/">> \o TrueName, "True"),
               CodeLop(5, <<"/", "k", "3", "/">> \o FalseName, "True") >>
        \* chains of two children: a modify that edits the tree followed by a code
        \* lop, and a code lop that returns False followed by another
        CondK4 ==
            <<LopNode(1, <<"/">>, "none")>> \o CondNode(<<"k", "4">>, <<Prop_p1>>) \o
            << [LopNode(4, <<"/", "k", "4", "/">> \o TrueName, "modify") EXCEPT
                    !.modify = Colon3(PC, <<"e">>, <<"1">>)],
               CodeLop(5, <<"/", "k", "4", "/">> \o TrueName \o <<"2">>, "True"),
               CodeLop(6, <<"/", "k", "4", "/">> \o FalseName, "False"),
               CodeLop(7, <<"/", "k", "4", "/">> \o FalseName \o <<"2">>, "True") >>
        CondK5 ==
            <<LopNode(1, <<"/">>, "none")>> \o CondNode(<<"k", "5">>, <<Prop_p1>>) \o
            << CodeLop(4, <<"/", "k", "5", "/">> \o TrueName, "True"),
               CodeLop(5, <<"/", "k", "5", "/">> \o TrueName \o <<"2">>, "True"),
               CodeLop(6, <<"/", "k", "5", "/">> \o FalseName, "True") >>
    IN  {CondK1, CondK2, CondK3, CondK4, CondK5}

ApplyConditional == \E lt \in CondTrees : ApplyIn(lt[2], lt)

\* exec lops in their lop trees: the target a modify lop, no node with the
\* phandle, the exec lop itself, a second exec lop that refers back, and a
\* code lop run with the exec lop's node as start node
ExecTrees ==
    LET Root == LopNode(1, <<"/">>, "none")
        ExecX1 ==
            << Root, [LopNode(2, <<"/", "x", "1">>, "exec") EXCEPT !.exec = 4],
               [LopNode(3, <<"/", "t">>, "modify") EXCEPT
                    !.modify = Colon3(PC, <<"e">>, <<"1">>), !.phandle = 4, !.noexec = TRUE] >>
        ExecX2 == << Root, [LopNode(2, <<"/", "x", "2">>, "exec") EXCEPT !.exec = 7] >>
        ExecX3 ==
            << Root, [LopNode(2, <<"/", "x", "3">>, "exec") EXCEPT !.exec = 5, !.phandle = 5] >>
        ExecX4 ==
            << Root, [LopNode(2, <<"/", "x", "4">>, "exec") EXCEPT !.exec = 6, !.phandle = 5],
               [LopNode(3, <<"/", "y">>, "exec") EXCEPT !.exec = 5, !.phandle = 6] >>
        ExecX5 ==
            << Root, [LopNode(2, <<"/", "x", "5">>, "exec") EXCEPT !.node = PA, !.exec = 4],
               [CodeLop(3, <<"/", "t">>, "True") EXCEPT !.phandle = 4] >>
    IN  {ExecX1, ExecX2, ExecX3, ExecX4, ExecX5}

ApplyExec == \E lt \in ExecTrees : ApplyIn(lt[2], lt)

NextOps == ApplyModify \/ ApplySelect \/ ApplyConditional \/ ApplyExec

SpecOps == InitOps /\ [][NextOps]_vars

(***************************************************************************)
(* exec_lop applied to tree, output and load lops, after command-line      *)
(* assists were registered (SpecIO)                                        *)
(***************************************************************************)
MaxIOSteps == 3

StrProp(name, s) == IF s = <<>> THEN <<>> ELSE <<Prop(name, <<StrV(s)>>)>>

NodesProp(v) == IF v = <<>> THEN <<>> ELSE <<Prop(<<"n", "o", "d", "e", "s">>, v)>>

TreeLop(name, nodes) ==
    [LopNode(2, <<"/", "m">>, "tree") EXCEPT !.props = StrProp(<<"t", "r", "e", "e">>, name) \o NodesProp(nodes)]

OutputLop(outfile, nodes, tree) ==
    [LopNode(2, <<"/", "m">>, "output") EXCEPT
        !.props = StrProp(<<"o", "u", "t", "f", "i", "l", "e">>, outfile) \o NodesProp(nodes) \o StrProp(<<"t", "r", "e", "e">>, tree)]

LoadLop(file) ==
    [LopNode(2, <<"/", "m">>, "load") EXCEPT !.props = StrProp(<<"l", "o", "a", "d">>, file)]

\* assists named on the command line and in load lops: by name, and by the
\* absolute path the generated load lops carry
AssistNames == {<<"m.py">>, <<"n.py">>}

InitIO ==
    /\ sdt = Engine(T0)
    /\ lops = <<>>
    /\ runqueue = EmptyQueue
    /\ pc = "io"
    /\ pri = 1 /\ fidx = 1 /\ nidx = 1
    /\ skip_list = {}
    /\ pre = sdt
    /\ op = NoLop
    /\ steps = 0

\* assists_setup runs before the first lop
Register ==
    /\ pc = "io" /\ steps < MaxIOSteps /\ op = NoLop
    /\ \E a \in AssistNames : sdt' = RegisterAssist(sdt, a)
    /\ pre' = sdt
    /\ steps' = steps + 1
    /\ UNCHANGED <<lops, runqueue, pc, pri, fidx, nidx, skip_list, op>>

ApplyIO(lop) ==
    /\ pc = "io" /\ steps < MaxIOSteps
    /\ pre' = [sdt EXCEPT !.trace = <<>>, !.calls = <<>>]
    /\ op' = lop
    /\ sdt' = ExecLop(pre', lop, OpsLopTree(lop), 0, "top", NoOpts, 0)
    /\ pc' = IF sdt'.status = "exit" THEN "exited"
             ELSE IF sdt'.status = "exc" THEN "crashed" ELSE "io"
    /\ steps' = steps + 1
    /\ UNCHANGED <<lops, runqueue, pri, fidx, nidx, skip_list>>

\* an earlier lop that edits the main tree ("/c:e:1"), or one that selects /c
ApplyEdit == ApplyIO(ModifyLop(PC, <<"e">>, <<"1">>)) \/ ApplyIO(SelectLop(<< <<PC>> >>))

ApplyTree ==
    LET \* tree lops with no nodes property, nodes = ["/c"] and nodes = ["*"]
        TreeLops == {TreeLop(<<"s">>, n) : n \in {<<>>, <<StrV(PC)>>, <<StrV(<<"*">>)>>}}
    IN  \E lop \in TreeLops : ApplyIO(lop)

ApplyOutput ==
    LET \* output lops: nodes = ["/c"] to every outfile; to o.dtb the whole tree, the
        \* selection set and the whole subtree s; to o.yaml the whole subtree s
        OutputLops ==
            {OutputLop(o, <<StrV(PC)>>, <<>>) : o \in OutFiles}
                \cup {OutputLop(<<"o", ".", "d", "t", "b">>, <<StrV(<<"*">>)>>, <<>>),
                      OutputLop(<<"o", ".", "d", "t", "b">>, <<>>, <<>>),
                      OutputLop(<<"o", ".", "d", "t", "b">>, <<StrV(<<"*">>)>>, <<"s">>),
                      OutputLop(<<"o", ".", "y", "a", "m", "l">>, <<StrV(<<"*">>)>>, <<"s">>)}
    IN  \E lop \in OutputLops : ApplyIO(lop)

\* a modify, a select and an output lop that name a tree: "s", which the
\* tree lops store, and "u", which no lop stores
ApplyNamed ==
    \E t \in {<<"s">>, <<"u">>} :
        \/ ApplyIO([ModifyLop(PC, <<"e">>, <<"1">>) EXCEPT !.props = StrProp(<<"t", "r", "e", "e">>, t)])
        \/ ApplyIO([SelectLop(<< <<PC>> >>) EXCEPT !.props = StrProp(<<"t", "r", "e", "e">>, t)])
        \/ ApplyIO(OutputLop(<<"o", ".", "d", "t", "s">>, <<StrV(PC)>>, t))

ApplyLoad ==
    LET LoadInputs == AssistNames \cup {<<"lopper/assists", "m.py">>}
    IN  \E file \in LoadInputs : ApplyIO(LoadLop(file))

(***************************************************************************)
(* Assist dispatch: load lops, assist-v1 lops and output files that go to  *)
(* an assist, with werror set or not (SpecAssist)                          *)
(***************************************************************************)
AssistLop(node, id) ==
    [LopNode(2, <<"/", "m">>, "assist") EXCEPT !.props = StrProp(<<"i", "d">>, id), !.node = node]

InitAssist ==
    /\ \E w \in BOOLEAN : sdt = [Engine(T0) EXCEPT !.werror = w]
    /\ lops = <<>>
    /\ runqueue = EmptyQueue
    /\ pc = "io"
    /\ pri = 1 /\ fidx = 1 /\ nidx = 1
    /\ skip_list = {}
    /\ pre = sdt
    /\ op = NoLop
    /\ steps = 0

\* load lops for the three modules
ApplyLoadAssist == \E file \in {<<"m.py">>, <<"n.py">>, <<"w.py">>} : ApplyIO(LoadLop(file))

\* assist-v1 lops on /c with no id, the id of m.py and the id of n.py, and
\* one on a node the tree does not have
ApplyAssist ==
    \/ \E id \in {<<>>, ModuleId(<<"m.py">>), ModuleId(<<"n.py">>)} : ApplyIO(AssistLop(PC, id))
    \/ ApplyIO(AssistLop(<<"/", "z", "z">>, <<>>))

\* output lops whose file goes to the assists: o.x, the extension m.py and
\* w.py declare, and o.z, which no module declares
ApplyAssistOutput ==
    \E o \in {<<"o", ".", "x">>, <<"o", ".", "z">>} : ApplyIO(OutputLop(o, <<StrV(PC)>>, <<>>))

NextAssist == ApplyLoadAssist \/ ApplyAssist \/ ApplyAssistOutput

SpecAssist == InitAssist /\ [][NextAssist]_vars

(***************************************************************************)
(* The program from its command line to the final write (lines 2150-2304): *)
(* the run as started, and beside it the run of the same command line      *)
(* with --dryrun (SpecMain).  sdt is the engine of the first, pre the      *)
(* engine of the second; both are handed the same lops.                    *)
(***************************************************************************)
MaxMainSteps == 3

\* what a file that is there before the program starts holds
OldFile == <<Node(1, <<"/">>, <<>>, <<"o", "l", "d">>, 0)>>

\* main up to perform_lops: a positional output that exists ends the
\* program unless --force was given (lines 2164-2178); an output given
\* with -o is taken as it is; the flags are set on the engine (2262-2266)
MainStart(werror, force, dryrun, output, positional, exists) ==
    LET e == [Engine(T0) EXCEPT !.files = [o \in OutFiles |-> IF o \in exists THEN OldFile ELSE <<>>],
                                !.werror = werror, !.dryrun = dryrun,
                                !.force = force, !.output_file = output]
    IN  IF positional /\ output # <<>> /\ e.files[output] # <<>> /\ ~force THEN Exited(e) ELSE e

InitMain ==
    /\ \E werror \in BOOLEAN, force \in BOOLEAN, positional \in BOOLEAN,
          output \in {<<>>, <<"o", ".", "d", "t", "s">>, <<"o", ".", "x">>},
          exists \in {{}, {<<"o", ".", "d", "t", "s">>}} :
            /\ sdt = MainStart(werror, force, FALSE, output, positional, exists)
            /\ pre = MainStart(werror, force, TRUE, output, positional, exists)
    /\ lops = <<>>
    /\ runqueue = EmptyQueue
    /\ pc = IF sdt.status = "ok" THEN "main" ELSE "exited"
    /\ pri = 1 /\ fidx = 1 /\ nidx = 1
    /\ skip_list = {}
    /\ op = NoLop
    /\ steps = 0

\* exec_lop in a run that has not ended
StepRun(e, lop) ==
    IF e.status = "ok" THEN ExecLop(e, lop, OpsLopTree(lop), 0, "top", NoOpts, 0) ELSE e

ApplyMain(lop) ==
    /\ pc = "main" /\ steps < MaxMainSteps
    /\ sdt' = StepRun(sdt, lop)
    /\ pre' = StepRun(pre, lop)
    /\ op' = lop
    /\ steps' = steps + 1
    /\ UNCHANGED <<lops, runqueue, pc, pri, fidx, nidx, skip_list>>

\* the path of the output lops of these runs
PW == <<"/", "w">>

\* output lops with nodes = ["/c"] to o.dts and to o.x
MainOutput ==
    \E o \in {<<"o", ".", "d", "t", "s">>, <<"o", ".", "x">>} :
        ApplyMain([OutputLop(o, <<StrV(PC)>>, <<>>) EXCEPT !.name = <<"w">>, !.path = PW])

\* meta lops with the argument phandle-desc: one describes the property
\* irq, the other the property gpio
MainMeta ==
    \E n \in {<<"i", "r", "q">>, <<"g", "p", "i", "o">>} :
        ApplyMain([LopNode(2, <<"/", "m">>, "meta") EXCEPT
            !.props = <<Prop(<<"c", "o", "m", "p", "a", "t", "i", "b", "l", "e">>, <<StrV(<<"m", "e", "t", "a">>)>>),
                        Prop(n, <<StrV(<<"p", "h", "a", "n", "d", "l", "e">>)>>)>>])

MainEdit == ApplyMain(ModifyLop(PC, <<"e">>, <<"1">>))

\* a load lop for w.py, whose callback raises
MainLoad == ApplyMain(LoadLop(<<"w.py">>))

\* after perform_lops (lines 2299-2304): unless dryrun, the tree is synced
\* into the FDT and written to output_file
FinalWrite(e) ==
    IF e.status # "ok" \/ e.dryrun THEN e
    ELSE WriteFile([e EXCEPT !.fdt = e.tree], e.tree, e.output_file, TRUE)

MainWrite ==
    /\ pc = "main"
    /\ sdt' = FinalWrite(sdt)
    /\ pre' = FinalWrite(pre)
    /\ pc' = "done"
    /\ op' = NoLop
    /\ UNCHANGED <<lops, runqueue, pri, fidx, nidx, skip_list, steps>>

NextMain == MainOutput \/ MainMeta \/ MainEdit \/ MainLoad \/ MainWrite

SpecMain == InitMain /\ [][NextMain]_vars

NextIO == Register \/ ApplyEdit \/ ApplyTree \/ ApplyOutput \/ ApplyLoad \/ ApplyNamed

SpecIO == InitIO /\ [][NextIO]_vars

Init == InitRun

Next ==
    \/ BuildRunqueue
    \/ BuildRunqueueFails
    \/ NextPri
    \/ Finish
    \/ NextFile
    \/ SkipNode
    \/ SkipLop
    \/ RunLop

Spec == Init /\ [][Next]_vars

(***************************************************************************)
(* Properties of a run (Spec)                                              *)
(***************************************************************************)
Ended == pc \in {"done", "exited", "crashed"}

\* the priority a lop file declares, 5 when it declares none
DeclaredPriority(i) == IF lops[i].priority = <<>> THEN 5 ELSE lops[i].priority[1]

\* the lop node a trace entry stands for, and its place in its file
TraceNode(x) == CHOOSE m \in {lops[x.file].tree[k] : k \in 1..Len(lops[x.file].tree)} : m.path = x.path

DocIndex(x) == CHOOSE k \in 1..Len(lops[x.file].tree) : lops[x.file].tree[k].path = x.path

\* C1: lops run in ascending file priority; files of one priority run in
\* the order of the engine's lop list, so no file's lops are interleaved
\* with another file's; within a file the top-level walk runs the lops in
\* document order.
C1_PriorityOrder ==
    \A i, j \in 1..Len(sdt.trace) :
        i < j =>
            LET a == sdt.trace[i]
                b == sdt.trace[j]
            IN  /\ DeclaredPriority(a.file) <= DeclaredPriority(b.file)
                /\ (DeclaredPriority(a.file) = DeclaredPriority(b.file) => a.file <= b.file)
                /\ (a.file = b.file /\ a.via = "top" /\ b.via = "top"
                        => DocIndex(a) < DocIndex(b))

\* C1 witness: a run that finished after executing a lop of the second
\* loaded file before a lop of the first, the first having the greater
\* priority number, and two top-level lops of one file
C1_Witness ==
    /\ pc = "done"
    /\ Len(lops) = 2
    /\ DeclaredPriority(1) > DeclaredPriority(2)
    /\ \E i, j \in 1..Len(sdt.trace) :
          /\ i < j /\ sdt.trace[i].file = 2 /\ sdt.trace[j].file = 1
    /\ \E i, j \in 1..Len(sdt.trace) :
          /\ i < j /\ sdt.trace[i].file = sdt.trace[j].file
          /\ sdt.trace[i].via = "top" /\ sdt.trace[j].via = "top"

FooPath == <<"/">> \o Foo

ScenarioDelThenAdd ==
    /\ Len(lops) = 2
    /\ \E i, j \in 1..2 :
          /\ lops[i] = LopFile(FileDel, <<1>>)
          /\ lops[j] = LopFile(FileAdd, <<3>>)

ScenarioAddThenDel ==
    /\ Len(lops) = 2
    /\ \E i, j \in 1..2 :
          /\ lops[i] = LopFile(FileDel, <<3>>)
          /\ lops[j] = LopFile(FileAdd, <<1>>)

\* C2: priority scenario: with the delete of /foo in the priority-1 file
\* and the add of /foo in the priority-3 file the run completes and /foo
\* exists at its end; with the priorities swapped /foo is absent.
C2_PriorityScenario ==
    /\ (ScenarioDelThenAdd /\ Ended) => (pc = "done" /\ FooPath \in Paths(sdt.tree))
    /\ (ScenarioAddThenDel /\ Ended) => FooPath \notin Paths(sdt.tree)

\* a conditional lop stands strictly above the node of trace entry x
BelowConditional(x) ==
    \E k \in 1..Len(lops[x.file].tree) :
        LET c == lops[x.file].tree[k]
        IN  c.kind = "conditional" /\ c.path # x.path /\ Below(c.path, x.path)

\* C3: the top-level walk never directly executes a lop node that is a
\* descendant of a conditional lop.
C3_NoDirectExecBelowConditional ==
    \A i \in 1..Len(sdt.trace) :
        sdt.trace[i].via = "top" => ~BelowConditional(sdt.trace[i])

\* C4 as stated: a lop node carrying noexec is never executed, whichever
\* path reaches it.
C4_NoexecNeverExecuted ==
    \A i \in 1..Len(sdt.trace) : ~TraceNode(sdt.trace[i]).noexec

\* C4 as amended: a lop node carrying noexec is never executed directly by
\* the top-level walk (it is executed when a conditional dispatches it or
\* an exec lop refers to it).
C4_NoexecNotWalked ==
    \A i \in 1..Len(sdt.trace) :
        sdt.trace[i].via = "top" => ~TraceNode(sdt.trace[i]).noexec

\* C4 witness: a finished run whose walk passed noexec lops without
\* executing them, one of which ran through an exec lop and one as the
\* true child of a conditional
C4_Witness ==
    /\ pc = "done"
    /\ \E i \in 1..Len(sdt.trace) :
          sdt.trace[i].via = "exec" /\ TraceNode(sdt.trace[i]).noexec
    /\ \E i \in 1..Len(sdt.trace) :
          sdt.trace[i].via = "cond" /\ TraceNode(sdt.trace[i]).noexec
    /\ \A i \in 1..Len(sdt.trace) :
          sdt.trace[i].via = "top" => ~TraceNode(sdt.trace[i]).noexec

(***************************************************************************)
(* Properties of one modify lop (SpecOps): pre is the engine before the    *)
(* lop, sdt the engine after it                                            *)
(***************************************************************************)
OpIsModify == op.kind = "modify" /\ Len(Split(op.modify, ":")) = 3

OpPath == Split(op.modify, ":")[1]

OpProp == Split(op.modify, ":")[2]

OpVal == Split(op.modify, ":")[3]

\* sub occurs in s
Contains(s, sub) == \E i \in 0..(Len(s) - Len(sub)) : SubSeq(s, i + 1, i + Len(sub)) = sub

ChildNames(t, p) == {t[i].name : i \in {k \in 1..Len(t) : t[k].path # p /\ PathParent(t[k].path) = p}}

PathsBelow(t, p) == {q \in Paths(t) : Below(p, q)}

Without(t, p) == SelectSeq(t, LAMBDA m : ~Below(p, m.path))

\* a rename: the node exists, VAL is a full path with the same parent and
\* another leaf name
IsRename ==
    /\ OpIsModify /\ OpProp = <<>> /\ OpVal # <<>>
    /\ OpPath \in Paths(pre.tree) /\ OpPath # <<"/">>
    /\ PathStr(OpVal) = OpVal
    /\ PathParent(OpVal) = PathParent(OpPath)
    /\ PathName(OpVal) # PathName(OpPath)

\* C5: after a rename a node with the original node's properties and
\* children exists at exactly VAL, no node exists at PATH, and a node that
\* occupied VAL before is gone.
C5_RenameLandsAtVal ==
    IsRename =>
        /\ OpVal \in Paths(sdt.tree)
        /\ Lookup(sdt.tree, OpVal).props = Lookup(pre.tree, OpPath).props
        /\ ChildNames(sdt.tree, OpVal) = ChildNames(pre.tree, OpPath)
        /\ OpPath \notin Paths(sdt.tree)
        /\ (OpVal \in Paths(pre.tree) => Lookup(pre.tree, OpVal).id \notin Ids(sdt.tree))

\* a move: the node exists, VAL is a free full path under another,
\* existing parent outside the node's own subtree
IsMove ==
    /\ OpIsModify /\ OpProp = <<>> /\ OpVal # <<>>
    /\ OpPath \in Paths(pre.tree) /\ OpPath # <<"/">>
    /\ PathStr(OpVal) = OpVal
    /\ PathParent(OpVal) # PathParent(OpPath)
    /\ OpVal \notin Paths(pre.tree)
    /\ PathParent(OpVal) \in Paths(pre.tree)
    /\ ~Below(OpPath, OpVal)

\* C6: after a move (whether or not the leaf name differs too) a node with
\* the source's properties and child names exists at VAL, none exists at
\* PATH, and no other node was added or removed.
C6_MoveLandsAtVal ==
    IsMove =>
        /\ OpVal \in Paths(sdt.tree)
        /\ Lookup(sdt.tree, OpVal).props = Lookup(pre.tree, OpPath).props
        /\ ChildNames(sdt.tree, OpVal) = ChildNames(pre.tree, OpPath)
        /\ OpPath \notin Paths(sdt.tree)
        /\ Paths(sdt.tree) \ PathsBelow(sdt.tree, OpVal)
              = Paths(pre.tree) \ PathsBelow(pre.tree, OpPath)

\* a node delete that has targets
IsNodeDelete ==
    /\ OpIsModify /\ OpProp = <<>> /\ OpVal = <<>>
    /\ (OpPath = <<>> => pre.selected # <<>>)

\* C7 as stated: every target is deleted: with PATH empty none of the
\* selected nodes nor their descendants is left, with PATH nonempty the
\* node at PATH and its descendants are gone.
C7_EveryTargetDeleted ==
    IsNodeDelete =>
        IF OpPath = <<>>
        THEN \A i \in 1..Len(pre.selected) :
                PathsBelow(sdt.tree, ById(pre.tree, pre.selected[i]).path) = {}
        ELSE PathsBelow(sdt.tree, OpPath) = {}

DeleteTarget ==
    IF OpPath = <<>> THEN ById(pre.tree, pre.selected[1]).path ELSE OpPath

\* C7 as amended: with PATH empty the one target is the first node of the
\* selection set; the target and its descendants are gone from the tree and
\* from the selection set, every other node is kept as it was.
C7_FirstTargetDeleted ==
    IsNodeDelete =>
        /\ sdt.tree = Without(pre.tree, DeleteTarget)
        /\ sdt.selected = SelectSeq(pre.selected,
                LAMBDA i : ~Below(DeleteTarget, ById(pre.tree, i).path))

\* C7 witness: a delete through the selection set after which a selected
\* node is still in the tree
C7_Witness ==
    /\ IsNodeDelete /\ OpPath = <<>>
    /\ Len(pre.selected) >= 2
    /\ pre.selected[1] \notin Ids(sdt.tree)
    /\ \E i \in 2..Len(pre.selected) : pre.selected[i] \in Ids(sdt.tree)

IsPropDelete == OpIsModify /\ OpPath # <<>> /\ OpProp # <<>> /\ OpVal = <<>>

PropsWithout(n, name) == [n EXCEPT !.props = SelectSeq(n.props, LAMBDA q : q.name # name)]

\* C8 as stated: the property is gone from the node at PATH, every other
\* node (with a property of that name, too) is as before, and the run
\* continues.
C8_OnlyNodeAtPath ==
    IsPropDelete =>
        /\ sdt.status = "ok"
        /\ Len(sdt.tree) = Len(pre.tree)
        /\ \A i \in 1..Len(pre.tree) :
              sdt.tree[i] = IF pre.tree[i].path = OpPath
                            THEN PropsWithout(pre.tree[i], OpProp)
                            ELSE pre.tree[i]

\* C8 as amended: the property is gone from the node at PATH and from
\* every descendant of it; the other properties of these nodes and all
\* nodes outside that subtree are as before, and the run continues.
C8_SubtreeAtPath ==
    IsPropDelete =>
        /\ sdt.status = "ok"
        /\ Len(sdt.tree) = Len(pre.tree)
        /\ \A i \in 1..Len(pre.tree) :
              sdt.tree[i] = IF Below(OpPath, pre.tree[i].path)
                            THEN PropsWithout(pre.tree[i], OpProp)
                            ELSE pre.tree[i]

\* C8 witness: a property delete that took the property from a descendant
\* of the node at PATH and left it on a node outside the subtree
C8_Witness ==
    /\ IsPropDelete /\ OpPath \in Paths(pre.tree)
    /\ \E i \in 1..Len(pre.tree) :
          /\ pre.tree[i].path # OpPath /\ Below(OpPath, pre.tree[i].path)
          /\ HasProp(pre.tree[i], OpProp) /\ ~HasProp(sdt.tree[i], OpProp)
    /\ \E i \in 1..Len(pre.tree) :
          /\ ~Below(OpPath, pre.tree[i].path)
          /\ HasProp(pre.tree[i], OpProp) /\ HasProp(sdt.tree[i], OpProp)

IsPropAssign == OpIsModify /\ OpProp # <<>> /\ OpVal # <<>> /\ (OpPath = <<>> => pre.selected # <<>>)

AssignedValue == ModifyValue(pre.tree, OpsLopTree(op), OpVal)

\* C9 as stated: the property is assigned on exactly subnodes(lookup PATH),
\* or with PATH empty on exactly the selection set.
C9_AssignOnSubnodes ==
    IsPropAssign =>
        /\ Len(sdt.tree) = Len(pre.tree)
        /\ \A i \in 1..Len(pre.tree) :
              sdt.tree[i] =
                  IF (IF OpPath = <<>> THEN InSeq(pre.selected, pre.tree[i].id)
                      ELSE OpPath \in Paths(pre.tree) /\ Below(OpPath, pre.tree[i].path))
                  THEN SetProp(pre.tree[i], OpProp, AssignedValue)
                  ELSE pre.tree[i]

\* C9 as amended: the property is assigned on exactly the nodes whose
\* absolute path PATH is found in (tree.nodes(PATH)), which are the node at
\* PATH, its descendants and every other node whose path contains PATH; with
\* PATH empty on exactly the selection set.
C9_AssignOnMatches ==
    IsPropAssign =>
        /\ Len(sdt.tree) = Len(pre.tree)
        /\ \A i \in 1..Len(pre.tree) :
              sdt.tree[i] =
                  IF (IF OpPath = <<>> THEN InSeq(pre.selected, pre.tree[i].id)
                      ELSE Contains(pre.tree[i].path, OpPath))
                  THEN SetProp(pre.tree[i], OpProp, AssignedValue)
                  ELSE pre.tree[i]

\* C9 witness: an assignment that reached a node outside subnodes(lookup PATH)
C9_Witness ==
    /\ IsPropAssign /\ OpPath \in Paths(pre.tree)
    /\ \E i \in 1..Len(pre.tree) :
          /\ ~Below(OpPath, pre.tree[i].path)
          /\ sdt.tree[i] # pre.tree[i]
          /\ PropVal(sdt.tree[i], OpProp) = AssignedValue
    /\ \E i \in 1..Len(pre.tree) :
          /\ pre.tree[i].path # OpPath /\ Below(OpPath, pre.tree[i].path)
          /\ PropVal(sdt.tree[i], OpProp) = AssignedValue

\* a phandle substitution on an existing node: VAL is &NAME or &NAME#FIELD
IsPhandleAssign ==
    /\ OpIsModify /\ OpProp # <<>> /\ OpPath \in Paths(pre.tree)
    /\ Len(OpVal) >= 2 /\ OpVal[1] = "&"

RefName == Split(Tail(OpVal), "#")[1]

RefField == IF Len(Split(Tail(OpVal), "#")) >= 2 THEN Split(Tail(OpVal), "#")[2] ELSE <<>>

FirstOrNone(s) == IF s = <<>> THEN NoNode ELSE ToNode(s[1])

WithLabel(t, l) == SelectSeq(t, LAMBDA m : m.label = l)

\* NAME resolved as a label: main tree first, then lop tree
ByLabel ==
    IF WithLabel(pre.tree, RefName) # <<>> THEN FirstOrNone(WithLabel(pre.tree, RefName))
    ELSE FirstOrNone(WithLabel(OpsLopTree(op), RefName))

PathHas(t, x) == SelectSeq(t, LAMBDA m : Contains(m.path, x))

LabelHas(t, x) == SelectSeq(t, LAMBDA m : Contains(m.label, x))

\* NAME resolved as the code resolves it: node paths of the main tree, then
\* its labels, then node paths of the lop tree, then its labels
ByPathThenLabel ==
    IF PathHas(pre.tree, RefName) # <<>> THEN FirstOrNone(PathHas(pre.tree, RefName))
    ELSE IF LabelHas(pre.tree, RefName) # <<>> THEN FirstOrNone(LabelHas(pre.tree, RefName))
    ELSE IF PathHas(OpsLopTree(op), RefName) # <<>>
    THEN FirstOrNone(PathHas(OpsLopTree(op), RefName))
    ELSE FirstOrNone(LabelHas(OpsLopTree(op), RefName))

AssignedAtPath == PropVal(Lookup(sdt.tree, OpPath), OpProp)

\* C10 as stated: NAME is resolved as a label, main tree first; without
\* #FIELD the value is [phandle of the node], [0] if nothing is resolved;
\* with #FIELD it is the value of FIELD of the resolved node.
C10_ResolvedAsLabel ==
    IsPhandleAssign =>
        /\ HasProp(Lookup(sdt.tree, OpPath), OpProp)
        /\ IF RefField = <<>>
           THEN AssignedAtPath = <<IntV(ByLabel.phandle)>>
           ELSE (ByLabel.id # 0 /\ HasProp(ByLabel, RefField))
                    => AssignedAtPath = PropVal(ByLabel, RefField)

\* C10 as amended: NAME is resolved first as a node path of the main tree
\* (a node whose path contains NAME), then as a label of the main tree,
\* then as a node path and as a label of the lop tree; the first node found
\* counts.  Without #FIELD the value is [its phandle], [0] if nothing is
\* found; with #FIELD it is the value of FIELD of that node, [its phandle]
\* if it has no FIELD, [0] if nothing is found.
C10_ResolvedByPathThenLabel ==
    IsPhandleAssign =>
        /\ HasProp(Lookup(sdt.tree, OpPath), OpProp)
        /\ AssignedAtPath =
              IF RefField # <<>> /\ ByPathThenLabel.id # 0 /\ HasProp(ByPathThenLabel, RefField)
              THEN PropVal(ByPathThenLabel, RefField)
              ELSE <<IntV(ByPathThenLabel.phandle)>>

\* C10 witness: &b assigned where b labels one node and occurs in the path
\* of an earlier one: the value is the phandle of the node found by path
C10_Witness ==
    /\ IsPhandleAssign /\ RefField = <<>>
    /\ ByLabel.id # 0 /\ ByPathThenLabel.id # ByLabel.id
    /\ ByPathThenLabel.phandle # ByLabel.phandle
    /\ AssignedAtPath = <<IntV(ByPathThenLabel.phandle)>>

(***************************************************************************)
(* Select lops (exec_lop applied to one select lop, SpecOps)               *)
(***************************************************************************)
OpIsSelect == op.kind = "select"

\* the lop has n select_N properties of one string each, none of them ""
OpEntries(n) ==
    /\ OpIsSelect /\ Len(op.select) = n
    /\ \A i \in 1..n : Len(op.select[i]) = 1 /\ op.select[i][1] # <<>>

EntryStr(i) == op.select[i][1]

EntryRegex(s) == IF Len(Split(s, ":")) = 3 THEN Split(s, ":")[1] ELSE s

EntryProp(s) == IF Len(Split(s, ":")) = 3 THEN Split(s, ":")[2] ELSE <<>>

EntryVal(s) == IF Len(Split(s, ":")) = 3 THEN Split(s, ":")[3] ELSE <<>>

SeqSet(q) == {q[i] : i \in 1..Len(q)}

NoRepeats(q) == \A i, j \in 1..Len(q) : q[i] = q[j] => i = j

\* the nodes of t whose path the regex matches
PathMatches(t, re) == {t[i].id : i \in {k \in 1..Len(t) : ReSearch(re, t[k].path)}}

\* node n has the property and it compares equal to the literal val
HoldsEq(n, prop, val) == HasProp(n, prop) /\ PropCompare(PropertyConvert(val), PropVal(n, prop))

\* the predicate PROP:PROPVAL of an entry as the selector rules state it
HoldsPred(n, prop, val) ==
    IF prop = <<>> THEN TRUE
    ELSE IF val = <<>>
    THEN IF StartsWith(prop, <<"!">>) THEN ~HasProp(n, Tail(prop)) ELSE HasProp(n, prop)
    ELSE IF StartsWith(val, <<"!">>) THEN ~HoldsEq(n, prop, Tail(val))
    ELSE HoldsEq(n, prop, val)

\* what one entry selects alone: regex match and the entry's own predicate
EntryAlone(t, s) ==
    {i \in PathMatches(t, EntryRegex(s)) : HoldsPred(ById(t, i), EntryProp(s), EntryVal(s))}

IsRegexValueSelect ==
    /\ OpEntries(1)
    /\ EntryRegex(EntryStr(1)) # <<>> /\ EntryProp(EntryStr(1)) # <<>>
    /\ EntryVal(EntryStr(1)) # <<>> /\ ~HasChar(EntryVal(EntryStr(1)), "!")

IsIntersectSelect ==
    /\ OpEntries(2)
    /\ EntryRegex(EntryStr(1)) # <<>> /\ EntryProp(EntryStr(1)) # <<>>
    /\ EntryVal(EntryStr(1)) # <<>>
    /\ Len(Split(EntryStr(2), ":")) = 3
    /\ EntryRegex(EntryStr(2)) = <<>> /\ EntryProp(EntryStr(2)) # <<>>

\* C12: after select_1 = "REGEX:P1:V1" and select_2 with an empty PATH_REGEX
\* and a predicate, the selection set holds exactly the nodes select_1
\* selects alone that satisfy select_2's predicate (so it is a subset of
\* what select_1 selects), whatever the selection set held before.
C12_SelectIntersection ==
    IsIntersectSelect =>
        SeqSet(sdt.selected) =
            {i \in EntryAlone(pre.tree, EntryStr(1)) :
                HoldsPred(ById(pre.tree, i), EntryProp(EntryStr(2)), EntryVal(EntryStr(2)))}

\* every entry of the lop has a nonempty PATH_REGEX and a plain predicate or
\* none
IsUnionSelect ==
    /\ OpIsSelect /\ Len(op.select) \in 1..2
    /\ OpEntries(Len(op.select))
    /\ \A i \in 1..Len(op.select) :
          /\ EntryRegex(EntryStr(i)) # <<>>
          /\ ~HasChar(EntryStr(i), "!")

\* C13: when every entry of a select lop has a nonempty PATH_REGEX, the
\* selection set is the union of what each entry selects alone: a node is
\* selected iff the regex of some entry matches it and the predicate of that
\* same entry, if it has one, holds for it.
C13_SelectUnion ==
    IsUnionSelect =>
        SeqSet(sdt.selected) = UNION {EntryAlone(pre.tree, EntryStr(i)) : i \in 1..Len(op.select)}

IsBangSelect ==
    /\ OpEntries(1)
    /\ EntryRegex(EntryStr(1)) # <<>> /\ EntryProp(EntryStr(1)) # <<>>
    /\ HasChar(EntryVal(EntryStr(1)), "!")

\* C14: among the nodes matching REGEX, "REGEX:PROP:!VAL" selects a node iff
\* "REGEX:PROP:VAL" does not select it, and a "!" elsewhere in PROPVAL than at
\* its beginning does not invert the test: the entry then selects the nodes
\* whose PROP compares equal to PROPVAL.
C14_SelectNegation ==
    IsBangSelect =>
        LET regex == EntryRegex(EntryStr(1))
            prop  == EntryProp(EntryStr(1))
            val   == EntryVal(EntryStr(1))
        IN  IF StartsWith(val, <<"!">>)
            THEN SeqSet(sdt.selected) =
                    {i \in PathMatches(pre.tree, regex) : ~HoldsEq(ById(pre.tree, i), prop, Tail(val))}
            ELSE SeqSet(sdt.selected) =
                    {i \in PathMatches(pre.tree, regex) : HoldsEq(ById(pre.tree, i), prop, val)}

\* the positions of the "" entries of the select lop
ClearAt == {k \in 1..Len(op.select) : op.select[k] = << <<>> >>}

\* what the entries after position k select, nothing being selected before
SelectedAfter(k) ==
    ExecSelect([pre EXCEPT !.selected = <<>>],
               [op EXCEPT !.select = SubSeq(op.select, k + 1, Len(op.select))]).selected

\* C15: a "" entry clears the selection set: the final selection holds only
\* nodes that the entries after the "" entry select, whatever an earlier lop
\* or an earlier entry of the same lop had selected; a lop whose only entry is
\* "" leaves the selection set empty.
C15_SelectClear ==
    (OpIsSelect /\ ClearAt # {}) =>
        \A k \in ClearAt : SeqSet(sdt.selected) \subseteq SeqSet(SelectedAfter(k))

(***************************************************************************)
(* Conditional lops (exec_lop applied to one conditional lop, SpecOps)     *)
(***************************************************************************)
OpIsCond == op.kind = "conditional" /\ pc = "ops"

OpCondTree == CHOOSE lt \in CondTrees : lt[2] = op

\* the deepest condition node and the path it stands for in the main tree
OpCondLast == Last(SubNodes(OpCondTree, Lookup(OpCondTree, op.path \o <<"/">> \o op.cond_root)))

OpCondPath == SubSeq(OpCondLast.path, Len(op.path) + 1, Len(OpCondLast.path))

\* the paths of the target-tree nodes found at the conditional's path
CondFound == {PathStr(TreeNodes(pre.tree, OpCondPath)[i].path) : i \in 1..Len(TreeNodes(pre.tree, OpCondPath))}

\* one condition property holds for the node at path q
CondHolds(q, cprop) ==
    LET n == Lookup(pre.tree, q)
    IN  IF EndsWith(cprop.name, NotSuffix)
        THEN LET cname == SubSeq(cprop.name, 1, Len(cprop.name) - Len(NotSuffix))
             IN  HasProp(n, cname) /\ ~PropCompare(cprop.value, PropVal(n, cname))
        ELSE HasProp(n, cprop.name) /\ PropCompare(cprop.value, PropVal(n, cprop.name))

\* the found nodes for which every condition property holds
CondAllHold == {q \in CondFound : \A i \in 1..Len(OpCondLast.props) : CondHolds(q, OpCondLast.props[i])}

\* the matches the children whose name starts with prefix were run for
Dispatched(prefix) ==
    {sdt.trace[i].start : i \in {k \in 1..Len(sdt.trace) :
        sdt.trace[k].via = "cond" /\ StartsWith(PathName(sdt.trace[k].path), prefix)}}

\* C16: the true matches (the nodes the true* children are run for) are
\* exactly the found nodes for which every property of the deepest condition
\* node holds, the false matches (the nodes the false* children are run for)
\* are exactly the other found nodes; no node is both, and the order of the
\* condition properties does not matter.
C16_ConditionalMatching ==
    OpIsCond =>
        /\ Dispatched(TrueName) = CondAllHold
        /\ Dispatched(FalseName) = CondFound \ CondAllHold

\* the children of the conditional whose name starts with prefix, in
\* document order
KidsWith(prefix) == SelectSeq(SubNodes(OpCondTree, op), LAMBDA n : StartsWith(n.name, prefix))

\* a child that returns false: a code lop whose script returns False; a
\* modify that edits the tree carried out its operation
StopsChain(kid) == kid.kind = "code" /\ kid.code_ret = "False"

RECURSIVE ExpectedChain(_, _)
ExpectedChain(kids, k) ==
    IF k > Len(kids) THEN <<>>
    ELSE <<kids[k].path>> \o (IF StopsChain(kids[k]) THEN <<>> ELSE ExpectedChain(kids, k + 1))

\* the children with that prefix that were run for match m, in order
RanFor(m, prefix) ==
    LET es == SelectSeq(sdt.trace, LAMBDA x :
                  x.via = "cond" /\ x.start = m /\ StartsWith(PathName(x.path), prefix))
    IN  [i \in 1..Len(es) |-> es[i].path]

\* every modify child names a node of the tree, so that it edits the tree
KidsCanEdit ==
    \A i \in 1..Len(OpCondTree) :
        OpCondTree[i].kind = "modify" => Split(OpCondTree[i].modify, ":")[1] \in Paths(pre.tree)

\* C17: with the match lists as C16 states them, for each true match every
\* true* child is run in document order with start_node bound to the match
\* until one returns false, which ends the chain for that match only; the
\* false* children likewise for each false match; no true* child is run for
\* a false match nor a false* child for a true match; a child that carried
\* out its operation (a modify that edited the tree) does not end the chain.
C17_ConditionalDispatch ==
    (OpIsCond /\ C16_ConditionalMatching /\ KidsCanEdit) =>
        \A m \in CondFound :
            /\ RanFor(m, TrueName) =
                  IF m \in CondAllHold THEN ExpectedChain(KidsWith(TrueName), 1) ELSE <<>>
            /\ RanFor(m, FalseName) =
                  IF m \in CondAllHold THEN <<>> ELSE ExpectedChain(KidsWith(FalseName), 1)


(***************************************************************************)
(* Claims about the tree, output and load lops, checked under SpecIO       *)
(***************************************************************************)
\* the nodes entries of the lop that ran, and the node ids they name in the
\* tree t (the selection set sel when the lop has no nodes property)
OpNodes == LopValue(op, <<"n", "o", "d", "e", "s">>)

Filtered(t, sel) == IF OpNodes = <<>> THEN sel ELSE GatherNodes(t, <<>>, OpNodes, 1)

\* the filtered copy: the whole tree for "*", else deep copies of the
\* filtered nodes under a fresh root
FilteredCopy(t, sel) ==
    IF HasStar(OpNodes) THEN t ELSE CopyInto(EmptyTree, t, Filtered(t, sel), 1)

OpIsTreeLop ==
    /\ op.kind = "tree" /\ HasProp(op, <<"t", "r", "e", "e">>)
    /\ HasStar(OpNodes) \/ Filtered(pre.tree, pre.selected) # <<>>

\* C18: a tree lop stores under its tree name the filtered copy of the main
\* tree as it is when the lop runs (edits of earlier lops included), for a
\* nodes list, for "*" and for the selection set when nodes is absent
C18_TreeLopExtract ==
    OpIsTreeLop =>
        /\ sdt.status = "ok"
        /\ sdt.subtrees[LopString(op, <<"t", "r", "e", "e">>)] = FilteredCopy(pre.tree, pre.selected)

\* an output lop whose filter names something and whose outfile has a
\* handler: .dtb, .dts, .yaml, or an extension a loaded assist answers for
OpOutfile == LopString(op, <<"o", "u", "t", "f", "i", "l", "e">>)

OutfileHandled ==
    \/ OpOutfile \in {<<"o", ".", "d", "t", "b">>, <<"o", ".", "d", "t", "s">>, <<"o", ".", "y", "a", "m", "l">>}
    \/ /\ FindCompatibleAssist(pre, <<>>, SplitExt(OpOutfile))[1] = "ok"
       /\ FindCompatibleAssist(pre, <<>>, SplitExt(OpOutfile))[2] # <<>>

OpIsOutputLop ==
    /\ op.kind = "output" /\ HasProp(op, <<"o", "u", "t", "f", "i", "l", "e">>)
    /\ HasStar(OpNodes) \/ Filtered(TargetTree(pre, op), TargetSelected(pre, op)) # <<>>
    /\ OutfileHandled

\* C19: what an output lop writes to its outfile is the filtered copy of the
\* targeted tree (main or named subtree), the nodes matched by nodes or the
\* selection set and no other node, for .dtb, .dts, .yaml and
\* assist-handled extensions
C19_OutputFiltered ==
    OpIsOutputLop =>
        sdt.files[OpOutfile] = FilteredCopy(TargetTree(pre, op), TargetSelected(pre, op))

\* the module file an assist entry stands for: the file of its loaded
\* module, the file it was registered with while none is loaded
EntryFile(a) == IF a.module # <<>> THEN a.module ELSE Resolve(a.file)

\* the entries of the table e.assists that stand for the module file m
EntriesFor(e, m) == {i \in 1..Len(e.assists) : EntryFile(e.assists[i]) = m}

\* a load lop that found its module file
OpIsLoadLop == op.kind = "load" /\ LopString(op, <<"l", "o", "a", "d">>) # <<>> /\ sdt.status = "ok"

OpModule == Resolve(AssistFind(LopString(op, <<"l", "o", "a", "d">>)))

\* C20: the assist table holds at most one entry per assist module file,
\* and a load lop naming a file that already has an entry (registered on
\* the command line or by an earlier load lop, from any search path)
\* updates that entry's module and properties and appends nothing
C20_AssistDedup ==
    /\ \A i, j \in 1..Len(sdt.assists) :
           EntryFile(sdt.assists[i]) = EntryFile(sdt.assists[j]) => i = j
    /\ (OpIsLoadLop /\ EntriesFor(pre, OpModule) # {}) =>
           /\ Len(sdt.assists) = Len(pre.assists)
           /\ \A i \in EntriesFor(pre, OpModule) :
                  /\ sdt.assists[i].module = OpModule
                  /\ sdt.assists[i].mask = ModuleExt(OpModule)
                  /\ sdt.assists[i].aid = ModuleId(OpModule)

(***************************************************************************)
(* The run queue and every loaded lop file (Spec)                          *)
(***************************************************************************)
\* the places of lop file i in the run queue
QueuePlaces(i) ==
    {<<q, k>> \in (1..9) \X (1..MaxFiles) : k <= Len(runqueue[q]) /\ runqueue[q][k] = i}

\* the top-level lops of lop file i: the lop nodes right below its root
\* that carry no noexec
TopLevelLops(i) ==
    {k \in 1..Len(lops[i].tree) :
        /\ lops[i].tree[k].kind # "none" /\ ~lops[i].tree[k].noexec
        /\ PathParent(lops[i].tree[k].path) = <<"/">>}

\* the trace entries of the top-level walk for node k of lop file i
WalkRuns(i, k) ==
    {x \in 1..Len(sdt.trace) :
        /\ sdt.trace[x].file = i /\ sdt.trace[x].via = "top"
        /\ sdt.trace[x].path = lops[i].tree[k].path}

\* C29: once perform_lops has filled the run queue every loaded lop file
\* stands in exactly one bucket, whatever priority its root declares (none
\* counts as 5, a value outside 1..9 neither drops the file nor aborts the
\* run), and a run that went through every bucket has executed each
\* top-level lop of each file exactly once
C29_EveryFileQueuedOnce ==
    /\ pc # "start" =>
           \A i \in 1..Len(lops) :
               /\ Cardinality(QueuePlaces(i)) = 1
               /\ \A qk \in QueuePlaces(i) : qk[1] = DeclaredPriority(i) \/ DeclaredPriority(i) \notin 1..9
    /\ pc = "done" =>
           \A i \in 1..Len(lops) : \A k \in TopLevelLops(i) : Cardinality(WalkRuns(i, k)) = 1

(***************************************************************************)
(* Exec lops (exec_lop applied to one exec lop, SpecOps)                   *)
(***************************************************************************)
OpIsExec == op.kind = "exec" /\ op.exec # 0

OpExecTree == CHOOSE lt \in ExecTrees : lt[2] = op

\* the lop node the exec property refers to
OpExecTarget == PNode(OpExecTree, op.exec)

\* the executions of that node through an exec lop
ExecRuns == {x \in 1..Len(sdt.trace) :
                sdt.trace[x].via = "exec" /\ sdt.trace[x].path = OpExecTarget.path}

\* the start node the exec lop hands on: its node property, else the first
\* selected node, else the caller's (none at top level)
OpExecStart ==
    IF op.node # <<>> THEN op.node
    ELSE IF pre.selected # <<>> THEN ById(pre.tree, pre.selected[1]).path
    ELSE <<>>

\* what the target lop does when run once on the engine before the exec lop
TargetOnce ==
    ExecLop(pre, OpExecTarget, OpExecTree, 0, "exec", [start_node |-> OpExecStart], 1)

\* C27: an exec lop runs the lop node its exec phandle refers to exactly
\* once, with its start node, and returns that lop's result; when the
\* phandle resolves to no node of the lop tree nothing is executed, the
\* engine state is unchanged and the result is false; this also for lop
\* trees whose exec targets form a cycle
C27_ExecRunsTargetOnce ==
    OpIsExec =>
        IF OpExecTarget = NoNode
        THEN /\ sdt.ret = "False" /\ sdt.status = "ok"
             /\ [sdt EXCEPT !.ret = pre.ret, !.trace = <<>>] = pre
             /\ Len(sdt.trace) = 1
        ELSE /\ Cardinality(ExecRuns) = 1
             /\ \A x \in ExecRuns : sdt.trace[x].start = OpExecStart
             /\ sdt.status = "ok"
             /\ sdt.ret = (IF OpExecTarget.kind = "code" THEN OpExecTarget.code_ret ELSE "False")
             /\ sdt.tree = TargetOnce.tree

(***************************************************************************)
(* C28: lops that name a tree the subtree table does not hold (SpecIO)     *)
(***************************************************************************)
\* C28: a select, output or modify lop whose tree property names a tree that
\* is not in the subtree table ends the run with an error, and the main tree
\* and its selection set are as they were before the lop.
C28_UnknownTreeAborts ==
    LET \* the lop just executed carries a tree property
        OpNamesTree == op # NoLop /\ HasProp(op, <<"t", "r", "e", "e">>)
        \* ... and the subtree table held no tree of that name when it started
        OpTreeAbsent == OpNamesTree /\ ~TargetIsSubtree(pre, op)
    IN  OpTreeAbsent =>
            /\ sdt.status = "exit"
            /\ sdt.tree = pre.tree
            /\ sdt.selected = pre.selected

(***************************************************************************)
(* C21: what find_compatible_assist returns (SpecAssist)                   *)
(***************************************************************************)
\* the lop just executed called find_compatible_assist: an assist-v1 lop
\* whose node is in the tree, or an output lop whose file goes to the assists
OpFinds == (op.kind = "assist" /\ TreeNodes(pre.tree, op.node) # <<>>) \/ op.kind = "output"

\* the id and the mask of that call
OpFindId == IF op.kind = "assist" THEN LopString(op, <<"i", "d">>) ELSE <<>>

OpFindMask == IF op.kind = "assist" THEN <<>>
              ELSE SplitExt(LopString(op, <<"o", "u", "t", "f", "i", "l", "e">>))

\* an assist with a module whose declared mask differs from the requested one
FailsMask(a, mask) == a.module # <<>> /\ mask # <<>> /\ a.mask # <<>> /\ a.mask # mask

\* the list the claim describes: in registration order, the non-false
\* answers of is_compat of the assists that pass the mask check, each one
\* asked with the id the loop holds when it reaches it
RECURSIVE MaskedCompat(_, _, _, _, _)
MaskedCompat(as, i, cb_id, mask, funcs) ==
    IF i > Len(as) THEN funcs
    ELSE IF as[i].module = <<>> THEN MaskedCompat(as, i + 1, cb_id, mask, funcs)
    ELSE LET id2 == IF cb_id = <<>> THEN as[i].aid ELSE cb_id
             f   == IF FailsMask(as[i], mask) THEN <<>> ELSE IsCompat(as[i].module, id2)
         IN  MaskedCompat(as, i + 1, id2, mask, IF f # <<>> THEN Append(funcs, f) ELSE funcs)

\* C21: find_compatible_assist completes without error and returns, in
\* registration order, exactly the non-false results of is_compat of the
\* assists that pass the mask check; an assist whose mask differs from the
\* requested one contributes nothing.
C21_FindCompatibleExact ==
    OpFinds => sdt.found = <<"ok", MaskedCompat(pre.assists, 1, OpFindId, OpFindMask, <<>>)>>

(***************************************************************************)
(* C30: the id an assist is probed with when the caller gave none          *)
(***************************************************************************)
\* the answers of the assists with a module, each probed with its own id
RECURSIVE OwnIdCompat(_, _, _)
OwnIdCompat(as, i, funcs) ==
    IF i > Len(as) THEN funcs
    ELSE IF as[i].module = <<>> THEN OwnIdCompat(as, i + 1, funcs)
    ELSE LET f == IsCompat(as[i].module, as[i].aid)
         IN  OwnIdCompat(as, i + 1, IF f # <<>> THEN Append(funcs, f) ELSE funcs)

\* C30: find_compatible_assist called with an empty id probes every assist
\* with the id that assist registered, never with the id of an earlier
\* assist (stated for the calls in which no assist fails the mask check).
C30_ProbedWithOwnId ==
    (/\ OpFinds /\ OpFindId = <<>>
     /\ \A i \in 1..Len(pre.assists) : ~FailsMask(pre.assists[i], OpFindMask))
        => sdt.found = <<"ok", OwnIdCompat(pre.assists, 1, <<>>)>>

(***************************************************************************)
(* C22: a callable that returns false or raises (SpecAssist)               *)
(***************************************************************************)
\* the results of the callables the lop just executed has called
CallResults == {sdt.calls[i][2] : i \in 1..Len(sdt.calls)}

\* C22: when a callable called for an assist-v1 lop or for an output file
\* returns false or raises, the run goes on if werror is off and ends with
\* an error if werror is on, for a false return as for an exception.
C22_AssistFailurePolicy ==
    (OpFinds /\ CallResults \cap {"false", "raise"} # {})
        => sdt.status = (IF pre.werror THEN "exit" ELSE "ok")

(***************************************************************************)
(* C23: the assists called to write an output file (SpecAssist)            *)
(***************************************************************************)
\* C23: an output file whose extension goes to the assists is written by the
\* first matching assist only: one callable is called for the write, also
\* when several assists are compatible (stated for the calls in which no
\* assist fails the mask check).
C23_OneAssistWrites ==
    (/\ op.kind = "output"
     /\ \A i \in 1..Len(pre.assists) : ~FailsMask(pre.assists[i], OpFindMask)
     /\ sdt.found[2] # <<>>)
        => /\ Len(sdt.calls) = 1
           /\ sdt.calls[1][1] = sdt.found[2][1]

(***************************************************************************)
(* C26: the phandle-desc map over a run (SpecMain)                         *)
(***************************************************************************)
\* the entries of the map of the started run
PdescEntries(e) == {e.pdesc[i] : i \in 1..Len(e.pdesc)}

\* C26: the phandle-desc map is only added to: an entry a meta lop has
\* published is in the map after every later lop, a later meta lop included.
C26_PdescKeepsEntries == [][PdescEntries(sdt) \subseteq PdescEntries(sdt')]_vars

(***************************************************************************)
(* C25: files that are there before the program starts (SpecMain)          *)
(***************************************************************************)
\* C25: without --force a file that exists when the program starts is never
\* overwritten, neither by the final write nor by an output lop.
C25_NoOverwriteWithoutForce ==
    [][\A o \in OutFiles : (sdt.files[o] = OldFile /\ ~sdt.force) => sdt'.files[o] = OldFile]_vars

(***************************************************************************)
(* C24: a run and the same run with --dryrun (SpecMain)                    *)
(***************************************************************************)
\* the two runs have executed the same lops in the same order and hold the
\* same main tree, subtree table, selection set and assist table
SameRun ==
    /\ sdt.trace = pre.trace
    /\ sdt.tree = pre.tree
    /\ sdt.subtrees = pre.subtrees
    /\ sdt.selected = pre.selected
    /\ sdt.assists = pre.assists

\* the dryrun run has written no file
NoDryWrite == \A o \in OutFiles : pre.files[o] \in {<<>>, OldFile}

\* the run as started was ended by a write: by the write of an output lop,
\* the last lop it executed, or by the final write
EndedInWrite ==
    /\ sdt.status # "ok"
    /\ Len(sdt.trace) <= Len(pre.trace)
    /\ SubSeq(pre.trace, 1, Len(sdt.trace)) = sdt.trace
    /\ \/ pc = "done" /\ sdt.trace = pre.trace
       \/ sdt.trace # <<>> /\ Last(sdt.trace).path = PW

\* C24 as stated: the run with dryrun and the run without it execute the
\* same lops in the same order and hold the same main tree, subtree table,
\* selection set and assist table, and the dryrun run writes no file.
C24_DryrunSameRun == SameRun /\ NoDryWrite

\* C24 as amended: the dryrun run writes no file; the two runs agree as
\* long as they are in the same status, and they differ only when a write
\* has ended the run as started while the dryrun run, which skips the
\* write, goes on.
C24_DryrunSameUntilWriteEnds ==
    /\ NoDryWrite
    /\ sdt.status = pre.status => SameRun
    /\ sdt.status # pre.status => (pre.status = "ok" /\ EndedInWrite)

\* both runs came to their end over an edit and an output lop: the run as
\* started has written files, the dryrun run none
C24_Witness ==
    /\ pc = "done" /\ sdt.status = "ok" /\ pre.status = "ok"
    /\ sdt.tree # T0
    /\ \E i \in 1..Len(pre.trace) : pre.trace[i].path = PW
    /\ sdt.files[<<"o", ".", "d", "t", "s">>] = sdt.tree
    /\ sdt.files # pre.files

====
